---- MODULE Spec2Model ----
(***************************************************************************)
(* gcalsync: the cross-calendar blocker synchronisation engine.            *)
(*                                                                         *)
(* The model follows the provider-based engine (syncCalendarWithProvider,  *)
(* src/sync.go:111-306), the two CalendarProvider implementations, the     *)
(* blocker_events ledger and the calendars registry.  Remote calendars are *)
(* modelled by what the providers read and write on them; every remote     *)
(* call may fail for a reason of its own (network, quota, credentials).    *)
(***************************************************************************)
EXTENDS Integers, Sequences, FiniteSets, TLC

\* ------------------------------------------------------------------------
\* Bounds of the model
\* ------------------------------------------------------------------------
MaxClock == 2      \* wall-clock seconds 1..MaxClock
MaxRuns == 2       \* commands started in one behaviour
MaxEnv == 3        \* changes made to the remote calendars by their users
MaxRev == 2        \* revisions of one source event
MaxDbErr == 1      \* ledger writes the database rejects in one run
MaxItems == 4      \* events of the calendar that Events.List is asked about
MaxPage == 2       \* events the backend puts in one page of a listing
MaxPorts == 3      \* ports, and entries of authorized_ports
MaxHour == 2       \* start and end times, in hours after the zero time
MaxText == 2       \* characters of an event summary
MaxStarts == 3     \* runs of dbInit on one database
MaxRequests == 3   \* requests that reach the callback server

\* ------------------------------------------------------------------------
\* Fixed data
\* ------------------------------------------------------------------------
CalIds == {"A", "B"}

UserEventIds == {<<"e", 1>>, <<"e", 2>>}

NoId == <<"", 0>>

\* provider type and server name of the second tracked calendar: a CalDAV
\* calendar of server "srv", a legacy row without server name or with the
\* name "default", a row of a provider type this version does not know
SecondRows == {<<"caldav", "srv">>, <<"caldav", "">>, <<"caldav", "default">>,
               <<"webcal", "">>}

NoRow == [event_id |-> NoId, origin_calendar_id |-> "", calendar_id |-> "",
          account_name |-> "", origin_event_id |-> NoId,
          last_updated |-> <<"", 0>>, response_status |-> ""]

NoCur == [row |-> NoRow, set |-> FALSE]

Title(id) == IF id[2] = 1 THEN "t1" ELSE "t2"

UserSummaries(id) == {<<Title(id)>>, <<"working location", Title(id)>>}

VARIABLES
    registry,      \* table calendars, in row order
    config,        \* names of the CalDAV servers in .gcalsync.toml
    remote,        \* calendar id -> set of events held by the backend
    ledger,        \* table blocker_events
    clock,         \* time.Now(), in seconds
    nextId,        \* next identifier the Google backend assigns
    cmd,           \* command of the current or last run
    pc,            \* position of the current run
    srcTodo,       \* source calendars still to sync, head = current source
    events,        \* events of the current source still to propagate
    allEventsId,   \* ids seen in the listing of the current source
    destTodo,      \* destination calendars still to visit in the current loop
    cur,           \* remote write done, ledger upsert pending
    toDelete,      \* eventsToDelete of the current destination
    runs,          \* commands started
    envs,          \* user changes made
    writes,        \* remote write calls issued by the current run
    quiet,         \* last run completed and nothing changed remotely since
    runQuiet,      \* quiet, as it was when the current run started
    crashedMid,    \* a run was stopped between a remote write and its upsert,
                   \* and nothing changed remotely since
    rowRev,        \* per ledger key, the revision the origin event had when
                   \* the row was written
    fcTodo,        \* GetAllCalendars: calendars still to visit
    calendars,     \* GetAllCalendars: the CalendarInfo list it returns
    providers,     \* GetAllCalendars: the providers map, as (account, key,
                   \* instance) entries
    built,         \* GetAllCalendars: provider instances constructed
    onServer,      \* Events.List: the events of the calendar, by start time
    pageSize,      \* Events.List: the number of events the backend puts in a page
    items,         \* Events.List: what ListEvents returns
    nextPageToken, \* Events.List: the continuation token of the last response
    authorizedPorts, \* findAvailablePort: the ports of the configuration
    free,          \* findAvailablePort: the ports net.Listen can bind
    portIdx,       \* findAvailablePort: position of the range loop
    listener,      \* findAvailablePort: the port of the listener returned
    sourceEvent,   \* blocker construction: the Event listed on the source
    blockerEvent,  \* blocker construction: the Event handed to the provider
    item,          \* event filter: the event resource the backend returns
    verdict,       \* event filter: what the loop of sync did with the event
    tokenStore,    \* getClient: table tokens
    caller,        \* getClient: accountName
    loaded,        \* getClient: the token read from the table
    client,        \* getClient: the token the returned client is built from
    flows,         \* getClient: runs of getTokenFromWeb in this call
    firstOutcome,  \* order of iteration: what an earlier run from the same
                   \* state ended with
    davCalendar,   \* CalDAV: the collection URL the provider is called with
    newEvent,      \* CalDAV: the Event handed to AddEvent
    objects,       \* CalDAV: the calendar objects the server holds, by resource path
    lastAdd,       \* CalDAV: the last AddEvent call, its path and what it returned
    lastGet,       \* CalDAV: the last GetEvent call, its path and what it returned
    lastDelete,    \* CalDAV: the last DeleteEvent call and its path
    versionTable,  \* dbInit: the table db_version exists
    dbVersionRow,  \* dbInit: the version recorded for 'gcalsync', -1 when there is no row
    tables,        \* dbInit: the tables tokens, calendars, blocker_events that exist
    columns,       \* dbInit: the columns added to blocker_events
    dbVersion,     \* dbInit: the local variable dbVersion
    dbRun,         \* dbInit: what the current run started from
    starts,        \* dbInit: runs of dbInit started
    handlers,      \* getTokenFromWeb: per callback request, its code parameter and where its handler is
    serving,       \* getTokenFromWeb: the callback server accepts requests
    authCode       \* getTokenFromWeb: the value the caller received from codeChan

vars == <<registry, config, remote, ledger, clock, nextId, cmd, pc, srcTodo, events,
          allEventsId, destTodo, cur, toDelete, runs, envs, writes,
          quiet, runQuiet, crashedMid, rowRev,
          fcTodo, calendars, providers, built,
          onServer, pageSize, items, nextPageToken,
          authorizedPorts, free, portIdx, listener,
          sourceEvent, blockerEvent, item, verdict,
          tokenStore, caller, loaded, client, flows, firstOutcome,
          davCalendar, newEvent, objects, lastAdd, lastGet, lastDelete,
          versionTable, dbVersionRow, tables, columns, dbVersion, dbRun, starts,
          handlers, serving, authCode>>

world == <<registry, config, remote, ledger, nextId>>
locals == <<srcTodo, events, allEventsId, destTodo, cur, toDelete>>

\* the state of the commands
engine == <<registry, config, remote, ledger, clock, nextId, cmd, srcTodo,
            events, allEventsId, destTodo, cur, toDelete, runs, envs, writes,
            quiet, runQuiet, crashedMid, rowRev>>

\* the state of the functions that are followed on their own
factory == <<fcTodo, calendars, providers, built>>
listing == <<onServer, pageSize, items, nextPageToken>>
ports == <<authorizedPorts, free, portIdx, listener>>
content == <<sourceEvent, blockerEvent>>
filter == <<item, verdict>>
auth == <<tokenStore, caller, loaded, client, flows>>
dav == <<davCalendar, newEvent, objects, lastAdd, lastGet, lastDelete>>
schema == <<versionTable, dbVersionRow, tables, columns, dbVersion, dbRun, starts>>
oauth == <<handlers, serving, authCode>>
aux == <<factory, listing, ports, content, filter, auth, firstOutcome, dav, schema, oauth>>

Stopped == {"idle", "done", "failed", "refused"}
Running == {"list", "event", "dest", "upsert", "scan", "del"}

\* ------------------------------------------------------------------------
\* Strings
\* ------------------------------------------------------------------------
\* strings.Contains(event.Summary, "O_o"), on summaries as token sequences
HasMarker(summary) == \E i \in 1..Len(summary) : summary[i] = "O_o"

\* strings.Contains(event.Summary, "working location")
IsWorkingLocation(summary) ==
    \E i \in 1..Len(summary) : summary[i] = "working location"

\* fmt.Sprintf("O_o %s", event.Summary)
BlockerSummary(summary) == <<"O_o">> \o summary

\* ------------------------------------------------------------------------
\* Sequences and orders
\* ------------------------------------------------------------------------
RECURSIVE Perms(_)
Perms(S) ==
    IF S = {} THEN {<<>>}
    ELSE UNION {{<<x>> \o p : p \in Perms(S \ {x})} : x \in S}

IdRank(id) ==
    (CASE id[1] = "e" -> 0 [] id[1] = "g" -> 1 [] OTHER -> 2) * 100 + id[2]

RECURSIVE SortById(_)
SortById(S) ==
    IF S = {} THEN <<>>
    ELSE LET m == CHOOSE x \in S : \A y \in S : IdRank(x.id) <= IdRank(y.id)
         IN <<m>> \o SortById(S \ {m})

MinId(S) == CHOOSE x \in S : \A y \in S : IdRank(x) <= IdRank(y)

\* ------------------------------------------------------------------------
\* Registry
\* ------------------------------------------------------------------------
RegistryRows == {registry[i] : i \in 1..Len(registry)}

Accounts == {r.account_name : r \in RegistryRows}

\* getCalendarsFromDB: one CalendarInfo per row, grouped by account, in row
\* order; an empty provider type reads as "google"
CalendarInfo(r) ==
    [account |-> r.account_name, ID |-> r.calendar_id,
     ProviderType |-> IF r.provider_type = "" THEN "google" ELSE r.provider_type,
     ProviderConfig |-> r.provider_config]

RECURSIVE InfosOf(_, _)
InfosOf(acct, rows) ==
    IF rows = <<>> THEN <<>>
    ELSE (IF Head(rows).account_name = acct
          THEN <<CalendarInfo(Head(rows))>> ELSE <<>>) \o InfosOf(acct, Tail(rows))

\* for accountName, calendarInfos := range calendars { for _, calInfo := ... }
\* for one iteration order of the accounts
RECURSIVE Flatten(_)
Flatten(order) ==
    IF order = <<>> THEN <<>>
    ELSE InfosOf(Head(order), registry) \o Flatten(Tail(order))

\* the key a calendar's provider is stored under: the provider type, or
\* "caldav-" + server name
ProviderKey(info) ==
    IF info.ProviderType = "caldav" THEN <<"caldav", info.ProviderConfig>>
    ELSE <<info.ProviderType, "">>

\* GetAllCalendars returns an error for this calendar: a CalDAV calendar
\* without a server name, with the legacy name "default" or with a server
\* that is not in the configuration, or a provider type it does not know
BadReference(info) ==
    \/ /\ info.ProviderType = "caldav"
       /\ \/ info.ProviderConfig \in {"", "default"}
          \/ info.ProviderConfig \notin config
    \/ info.ProviderType \notin {"google", "caldav"}

\* no check of the configuration
NoConfigCheck == FALSE

\* GetAllCalendars fails on the configuration
GetAllCalendarsFails == \E r \in RegistryRows : BadReference(CalendarInfo(r))

\* the providers map GetAllCalendars builds: per account, the keys that
\* hold a provider
Providers ==
    [a \in Accounts |->
       {ProviderKey(CalendarInfo(r)) : r \in {x \in RegistryRows : x.account_name = a}}]

\* the source calendar is a destination too
AnyCalendar(info, calendarID) == TRUE

\* if otherCalendarInfo.ID != calendarID
IsOther(info, calendarID) == info.ID # calendarID

\* the destinations of one loop: every calendar whose ID differs
OtherCalendars(order, calendarID) ==
    SelectSeq(Flatten(order), LAMBDA info : IsOther(info, calendarID))

\* ------------------------------------------------------------------------
\* Providers, as seen through the remote state
\* ------------------------------------------------------------------------
Find(cal, id) == {e \in remote[cal] : e.id = id}

Exists(cal, id) == Find(cal, id) # {}

TheEvent(cal, id) == CHOOSE e \in remote[cal] : e.id = id

\* the provider-neutral Event: the revision stamp is not part of it
ToEvent(e) ==
    [id |-> e.id, summary |-> e.summary, status |-> e.status,
     inWindow |-> e.inWindow, upcoming |-> e.upcoming]

\* ListEvents: the Google backend leaves cancelled events out of the listing
\* (SingleEvents, no showDeleted); a CalDAV calendar-query returns every
\* VEVENT in the range, whatever its STATUS
Listed(info, e) ==
    /\ e.inWindow
    /\ (info.ProviderType = "google" => e.status # "cancelled")

ListEvents(info) ==
    SortById({ToEvent(e) : e \in {x \in remote[info.ID] : Listed(info, x)}})

\* the same listing for the range of cleanup, time.Now() to one year later:
\* an event that lies before now is not in it
ListedFromNow(info, e) ==
    /\ e.upcoming
    /\ (info.ProviderType = "google" => e.status # "cancelled")

\* the identifier AddEvent returns: Google assigns a fresh one, CalDAV
\* builds "gcalsync-" + time.Now().Format("20060102T150405Z")
NewEventId(info) ==
    IF info.ProviderType = "caldav" THEN <<"gcalsync", clock>>
    ELSE <<"g", nextId>>

\* the event a successful AddEvent or UpdateEvent leaves on the backend
Stored(id, blocker) ==
    [id |-> id, summary |-> blocker.summary, status |-> "confirmed",
     updated |-> 1, inWindow |-> blocker.inWindow, upcoming |-> blocker.upcoming]

\* PUT of <calendar-path>/<id>.ics, or Events.Insert / Events.Update
Put(cal, id, blocker) ==
    [remote EXCEPT ![cal] = {e \in @ : e.id # id} \cup {Stored(id, blocker)}]

\* UpdateEvent can succeed: CalDAV PUT creates or replaces, Google needs
\* the event to exist
UpdateCanSucceed(info, id) ==
    info.ProviderType = "caldav" \/ Exists(info.ID, id)

\* DeleteEvent can succeed: the event is there and, on Google, not already
\* a tombstone (410 Gone)
DeleteCanSucceed(info, id) ==
    /\ Exists(info.ID, id)
    /\ (info.ProviderType = "google" => TheEvent(info.ID, id).status # "cancelled")

\* a successful DeleteEvent: Google keeps a cancelled tombstone, CalDAV
\* removes the resource
Removed(info, id) ==
    IF info.ProviderType = "google"
    THEN [remote EXCEPT ![info.ID] =
            {IF e.id = id THEN [e EXCEPT !.status = "cancelled"] ELSE e : e \in @}]
    ELSE [remote EXCEPT ![info.ID] = {e \in @ : e.id # id}]

\* ------------------------------------------------------------------------
\* Ledger
\* ------------------------------------------------------------------------
\* SELECT ... WHERE calendar_id = ? AND origin_event_id = ?
Lookup(calendarID, originEventID) ==
    {r \in ledger : r.calendar_id = calendarID /\ r.origin_event_id = originEventID}

SameKey(r, s) ==
    r.calendar_id = s.calendar_id /\ r.origin_event_id = s.origin_event_id

\* a plain INSERT into a table without the primary key
UpsertNoReplace(rows, row) == rows \cup {row}

\* INSERT OR REPLACE under PRIMARY KEY (calendar_id, origin_event_id)
Upsert(rows, row) == {r \in rows : ~SameKey(r, row)} \cup {row}

\* DELETE FROM blocker_events WHERE event_id = ?
DeleteByEventId(rows, eventID) == {r \in rows : r.event_id # eventID}

\* time.Now().Format(time.RFC3339)
UpdatedTime == <<"t", clock>>

\* the revision stamp of a source event, as the backend formats it
RevMarker(e) == <<"rev", e.updated>>

\* ------------------------------------------------------------------------
\* Initial state: an initialised database with two tracked calendars,
\* one per backend
\* ------------------------------------------------------------------------
\* no listing was requested
IdleListing ==
    /\ onServer = [i \in 1..MaxItems |-> "none"]
    /\ pageSize = MaxPage
    /\ items = <<>>
    /\ nextPageToken = 0

\* no port was looked for
IdlePorts ==
    /\ authorizedPorts = <<>>
    /\ free = {}
    /\ portIdx = 0
    /\ listener = 0

\* the zero value of time.Time, and time.Hour in the unit of the model
ZeroTime == 0
Hour == 1

\* an Event without content
NoEvent == [Summary |-> <<>>, Description |-> "", Start |-> ZeroTime,
            End |-> ZeroTime, Status |-> ""]

\* no blocker was built
IdleContent ==
    /\ sourceEvent = NoEvent
    /\ blockerEvent = NoEvent

\* an event resource without content
NoItem == [provider |-> "", Id |-> NoId, Summary |-> <<>>, EventType |-> ""]

NoVerdict == [event |-> NoEvent, id |-> NoId, seen |-> FALSE]

\* no event went through the filter
IdleFilter ==
    /\ item = NoItem
    /\ verdict = NoVerdict

\* no token
NoToken == [id |-> NoId, state |-> "none"]

\* getClient was not called
IdleAuth ==
    /\ tokenStore = {}
    /\ caller = ""
    /\ loaded = NoToken
    /\ client = NoToken
    /\ flows = 0

\* a time.Time: seconds and the part below one second
ZeroInstant == [sec |-> 0, nsec |-> 0]

\* an Event of calendar_provider.go without content
NoDavEvent == [ID |-> NoId, Summary |-> <<>>, Description |-> <<>>,
               Start |-> ZeroInstant, End |-> ZeroInstant, Status |-> ""]

NoCall == [id |-> NoId, path |-> <<>>, err |-> FALSE, called |-> FALSE]

\* the CalDAV provider was not called
IdleDav ==
    /\ davCalendar = <<>>
    /\ newEvent = NoDavEvent
    /\ objects = {}
    /\ lastAdd = NoCall
    /\ lastGet = [event |-> NoDavEvent, path |-> <<>>, err |-> FALSE,
                  called |-> FALSE]
    /\ lastDelete = NoCall

\* no row in db_version
NoVersion == -1

NoDbRun == [from |-> NoVersion, clean |-> FALSE, killed |-> FALSE]

\* dbInit has not run and there is no database
IdleSchema ==
    /\ versionTable = FALSE
    /\ dbVersionRow = NoVersion
    /\ tables = {}
    /\ columns = {}
    /\ dbVersion = 0
    /\ dbRun = NoDbRun
    /\ starts = 0

\* a request that has not arrived
NoRequest == [code |-> "", at |-> "none"]

\* getTokenFromWeb was not called
IdleOauth ==
    /\ handlers = [i \in 1..MaxRequests |-> NoRequest]
    /\ serving = FALSE
    /\ authCode = ""

\* no outcome of an earlier run is kept
NoOutcome == [blockers |-> <<>>, rows |-> {}, kept |-> FALSE]

\* empty calendars and an empty ledger
IdleWorld ==
    /\ config = {"srv"}
    /\ remote = [c \in CalIds |-> {}]
    /\ ledger = {}
    /\ clock = 1
    /\ nextId = 1
    /\ rowRev = {}

\* no command has run
IdleRun ==
    /\ cmd = "none"
    /\ pc = "idle"
    /\ srcTodo = <<>>
    /\ events = <<>>
    /\ allEventsId = {}
    /\ destTodo = <<>>
    /\ cur = NoCur
    /\ toDelete = {}
    /\ runs = 0
    /\ envs = 0
    /\ writes = {}
    /\ quiet = FALSE
    /\ runQuiet = FALSE
    /\ crashedMid = FALSE

IdleEngine ==
    /\ IdleWorld
    /\ IdleRun

\* GetAllCalendars was not called
IdleFactory ==
    /\ fcTodo = <<>>
    /\ calendars = <<>>
    /\ providers = {}
    /\ built = 0

\* nothing has run yet
Idle ==
    /\ IdleEngine
    /\ IdleFactory
    /\ IdleListing
    /\ IdlePorts
    /\ IdleContent
    /\ IdleFilter
    /\ IdleAuth
    /\ firstOutcome = NoOutcome
    /\ IdleDav
    /\ IdleSchema
    /\ IdleOauth

Init ==
    /\ \E b \in SecondRows :
         registry = <<
           [account_name |-> "u1", calendar_id |-> "A",
            provider_type |-> "google", provider_config |-> ""],
           [account_name |-> "u2", calendar_id |-> "B",
            provider_type |-> b[1], provider_config |-> b[2]] >>
    /\ Idle

NoLocals ==
    /\ srcTodo' = <<>>
    /\ events' = <<>>
    /\ allEventsId' = {}
    /\ destTodo' = <<>>
    /\ cur' = NoCur
    /\ toDelete' = {}

\* log.Fatalf, or the process is killed: the run ends unfinished
Fatal ==
    /\ pc' = "failed"
    /\ quiet' = FALSE
    /\ NoLocals

\* ------------------------------------------------------------------------
\* The users of the calendars
\* ------------------------------------------------------------------------
EnvStep ==
    /\ UNCHANGED aux
    /\ pc \in Stopped
    /\ envs < MaxEnv
    /\ envs' = envs + 1
    /\ quiet' = FALSE
    /\ crashedMid' = FALSE
    /\ UNCHANGED <<registry, ledger, clock, nextId, cmd, pc, locals, runs,
                   writes, runQuiet, rowRev>>

\* the user removes a CalDAV server entry from the configuration file
RemoveServer ==
    /\ EnvStep
    /\ \E name \in config : config' = config \ {name}
    /\ UNCHANGED remote

\* a user creates an appointment
CreateEvent ==
    /\ EnvStep
    /\ UNCHANGED config
    /\ \E c \in CalIds, id \in UserEventIds :
         /\ ~Exists(c, id)
         /\ \E s \in UserSummaries(id) :
              remote' = [remote EXCEPT ![c] = @ \cup
                  {[id |-> id, summary |-> s, status |-> "confirmed",
                    updated |-> 1, inWindow |-> TRUE, upcoming |-> TRUE]}]

\* a user edits an appointment: the backend bumps its revision stamp
EditEvent ==
    /\ EnvStep
    /\ UNCHANGED config
    /\ \E c \in CalIds : \E e \in remote[c] :
         /\ e.id \in UserEventIds
         /\ e.status # "cancelled"
         /\ e.updated < MaxRev
         /\ remote' = [remote EXCEPT ![c] =
                          (@ \ {e}) \cup {[e EXCEPT !.updated = @ + 1]}]

\* an event becomes cancelled: deleted on Google (a tombstone stays), or
\* marked STATUS:CANCELLED on CalDAV
CancelEvent ==
    /\ EnvStep
    /\ UNCHANGED config
    /\ \E c \in CalIds : \E e \in remote[c] :
         /\ e.status # "cancelled"
         /\ remote' = [remote EXCEPT ![c] =
                          (@ \ {e}) \cup {[e EXCEPT !.status = "cancelled"]}]

\* an event disappears from the backend altogether
PurgeEvent ==
    /\ EnvStep
    /\ UNCHANGED config
    /\ \E c \in CalIds : \E e \in remote[c] :
         remote' = [remote EXCEPT ![c] = @ \ {e}]

\* a user moves an appointment out of the sync window
MoveEvent ==
    /\ EnvStep
    /\ UNCHANGED config
    /\ \E c \in CalIds : \E e \in remote[c] :
         /\ e.id \in UserEventIds
         /\ e.inWindow
         /\ remote' = [remote EXCEPT ![c] =
                          (@ \ {e}) \cup {[e EXCEPT !.inWindow = FALSE]}]

\* the current time passes the slot of an appointment of this month, and of
\* the blockers that copy its times on the other calendars
ElapseEvent ==
    /\ EnvStep
    /\ UNCHANGED config
    /\ \E c \in CalIds : \E e \in remote[c] :
         /\ e.id \in UserEventIds
         /\ e.inWindow
         /\ e.upcoming
         /\ remote' = [d \in CalIds |->
               {IF \/ (d = c /\ x = e)
                   \/ (d # c /\ x.inWindow /\ x.summary = BlockerSummary(e.summary))
                THEN [x EXCEPT !.upcoming = FALSE] ELSE x : x \in remote[d]}]

\* a second of wall-clock time passes (between runs, or before a ledger
\* lookup: the clock is read nowhere else)
Tick ==
    /\ UNCHANGED aux
    /\ pc \in Stopped \cup {"dest"}
    /\ clock < MaxClock
    /\ clock' = clock + 1
    /\ UNCHANGED <<world, cmd, pc, locals, runs, envs, writes,
                   quiet, runQuiet, crashedMid, rowRev>>

\* ------------------------------------------------------------------------
\* sync
\* ------------------------------------------------------------------------
\* syncCalendars: one pass over the tracked calendars, account by account
StartSync ==
    /\ UNCHANGED aux
    /\ pc \in Stopped
    /\ runs < MaxRuns
    /\ runs' = runs + 1
    /\ cmd' = "sync"
    /\ writes' = {}
    /\ runQuiet' = quiet
    /\ quiet' = FALSE
    /\ \/ /\ ~GetAllCalendarsFails
          /\ \E order \in Perms(Accounts) :
               /\ srcTodo' = Flatten(order)
               /\ pc' = IF srcTodo' = <<>> THEN "done" ELSE "list"
       \/ \* GetAllCalendars returns an error (the configuration, or a
          \* provider that cannot be created): log.Fatalf
          /\ srcTodo' = <<>>
          /\ pc' = IF GetAllCalendarsFails THEN "refused" ELSE "failed"
    /\ events' = <<>>
    /\ allEventsId' = {}
    /\ destTodo' = <<>>
    /\ cur' = NoCur
    /\ toDelete' = {}
    /\ UNCHANGED <<world, clock, envs, crashedMid, rowRev>>

\* syncCalendarWithProvider, the listing of the source calendar
ListStep ==
    /\ UNCHANGED aux
    /\ pc = "list"
    /\ \/ /\ events' = ListEvents(Head(srcTodo))
          /\ allEventsId' = {}
          /\ pc' = "event"
          /\ UNCHANGED <<srcTodo, destTodo, cur, toDelete, quiet>>
       \/ Fatal
    /\ UNCHANGED <<world, clock, cmd, runs, envs, writes, runQuiet,
                   crashedMid, rowRev>>

\* the marker test left out
UnmirroredNoMarker(src, e) ==
    src.ProviderType = "google" /\ IsWorkingLocation(e.summary)

\* the event is not mirrored: a working-location entry of a Google source,
\* or an event that carries the blocker marker
Unmirrored(src, e) ==
    \/ src.ProviderType = "google" /\ IsWorkingLocation(e.summary)
    \/ HasMarker(e.summary)

\* the head of the loop over the listed events
EventStep ==
    /\ UNCHANGED aux
    /\ pc = "event"
    /\ IF events = <<>>
       THEN /\ \E order \in Perms(Accounts) :
                 destTodo' = OtherCalendars(order, Head(srcTodo).ID)
            /\ pc' = "scan"
            /\ UNCHANGED <<events, allEventsId>>
       ELSE /\ allEventsId' = allEventsId \cup {Head(events).id}
            /\ IF Unmirrored(Head(srcTodo), Head(events))
               THEN /\ events' = Tail(events)
                    /\ pc' = "event"
                    /\ UNCHANGED destTodo
               ELSE /\ \E order \in Perms(Accounts) :
                         destTodo' = OtherCalendars(order, Head(srcTodo).ID)
                    /\ pc' = "dest"
                    /\ UNCHANGED events
    /\ UNCHANGED <<world, clock, cmd, srcTodo, cur, toDelete, runs, envs,
                   writes, quiet, runQuiet, crashedMid, rowRev>>

\* the ledger row found for (destination, origin event), or NoRow when the
\* query returns sql.ErrNoRows
RowFor(calendarID, originEventID) ==
    IF Lookup(calendarID, originEventID) = {} THEN NoRow
    ELSE CHOOSE r \in Lookup(calendarID, originEventID) : TRUE

\* the skip condition: err == nil && last_updated == updatedTime &&
\* originCalendarID == calendarID && responseStatus == originalResponseStatus
UpToDateAt(row, calendarID, updatedTime) ==
    /\ row # NoRow
    /\ row.last_updated = updatedTime
    /\ row.origin_calendar_id = calendarID
    /\ row.response_status = "accepted"

\* the skip condition with updatedTime := time.Now().Format(time.RFC3339)
UpToDate(row, calendarID) == UpToDateAt(row, calendarID, UpdatedTime)

\* a blocker is added whatever the ledger holds
AlwaysAdd(row) == FALSE

\* existingBlockerEventID != "": update the recorded blocker, else add one
UseUpdate(row) == row.event_id # NoId

\* what is done for one (destination, event) pair, given the wall clock, the
\* events the destination holds, the row found and the source calendar
Choice(updatedTime, destContent, row, calendarID) ==
    IF UpToDateAt(row, calendarID, updatedTime) THEN "skip"
    ELSE IF UseUpdate(row) THEN "update" ELSE "add"

\* the blocker built from a source event
BlockerEvent(e) ==
    [summary |-> BlockerSummary(e.summary), status |-> "confirmed",
     inWindow |-> e.inWindow, upcoming |-> e.upcoming]

\* the row of the INSERT OR REPLACE after a successful remote write
NewRow(newEventID, src, dest, e) ==
    [event_id |-> newEventID, origin_calendar_id |-> src.ID,
     calendar_id |-> dest.ID, account_name |-> dest.account,
     origin_event_id |-> e.id, last_updated |-> UpdatedTime,
     response_status |-> "accepted"]

\* the revision recorded for a ledger key differs from the origin event's
Stale(dest, e, src) ==
    \E g \in rowRev : /\ g[1] = dest.ID
                      /\ g[2] = e.id
                      /\ Lookup(dest.ID, e.id) # {}
                      /\ g[3] # TheEvent(src.ID, e.id).updated

WriteLog(op, dest, id, e, src, ok) ==
    [op |-> op, cal |-> dest.ID, id |-> id, oe |-> e.id, src |-> src.ID,
     summary |-> e.summary, ok |-> ok, stale |-> Stale(dest, e, src),
     absent |-> FALSE]

\* the error of the remote write dropped
WriteErrorIgnored == TRUE

\* a remote write came back with an error: does the run go on to the upsert?
\* (if err != nil { log.Fatalf(...) })
ContinuesAfterWriteError == FALSE

\* one destination of one event: ledger lookup, then UpdateEvent or AddEvent
DestStep ==
    /\ UNCHANGED aux
    /\ pc = "dest"
    /\ IF destTodo = <<>>
       THEN /\ events' = Tail(events)
            /\ pc' = "event"
            /\ UNCHANGED <<remote, nextId, srcTodo, allEventsId, destTodo, cur,
                           toDelete, writes, quiet>>
       ELSE LET src == Head(srcTodo)
                e == Head(events)
                dest == Head(destTodo)
                row == RowFor(dest.ID, e.id)
                blocker == BlockerEvent(e)
                op == Choice(UpdatedTime, remote[dest.ID], row, src.ID)
                newId == IF op = "update" THEN row.event_id ELSE NewEventId(dest)
            IN IF op = "skip"
               THEN /\ destTodo' = Tail(destTodo)
                    /\ UNCHANGED <<remote, nextId, pc, srcTodo, events,
                                   allEventsId, cur, toDelete, writes, quiet>>
               ELSE \/ /\ op = "update" => UpdateCanSucceed(dest, row.event_id)
                       /\ remote' = Put(dest.ID, newId, blocker)
                       /\ nextId' = IF op = "add" /\ dest.ProviderType # "caldav"
                                    THEN nextId + 1 ELSE nextId
                       /\ cur' = [row |-> NewRow(newId, src, dest, e), set |-> TRUE]
                       /\ writes' = writes \cup {WriteLog(op, dest, newId, e, src, TRUE)}
                       /\ pc' = "upsert"
                       /\ UNCHANGED <<srcTodo, events, allEventsId, destTodo,
                                      toDelete, quiet>>
                    \/ /\ writes' = writes \cup
                            {WriteLog(op, dest, row.event_id, e, src, FALSE)}
                       /\ IF ContinuesAfterWriteError
                          THEN /\ cur' = [row |-> NewRow(newId, src, dest, e),
                                          set |-> TRUE]
                               /\ pc' = "upsert"
                               /\ UNCHANGED <<srcTodo, events, allEventsId,
                                              destTodo, toDelete, quiet>>
                          ELSE Fatal
                       /\ UNCHANGED <<remote, nextId>>
    /\ UNCHANGED <<registry, config, ledger, clock, cmd, runs, envs, runQuiet,
                   crashedMid, rowRev>>

\* the log entry of a db.Exec that returned an error
RecordLog(row) ==
    [op |-> "record", cal |-> row.calendar_id, id |-> row.event_id,
     oe |-> row.origin_event_id, src |-> row.origin_calendar_id,
     summary |-> <<>>, ok |-> FALSE, stale |-> FALSE, absent |-> FALSE]

\* the INSERT OR REPLACE that records the outcome of the remote write; its
\* error goes to a variable that shadows err, is logged, and the loop goes on
UpsertStep ==
    /\ UNCHANGED aux
    /\ pc = "upsert"
    /\ \/ /\ ledger' = Upsert(ledger, cur.row)
          /\ rowRev' = {g \in rowRev : ~(g[1] = cur.row.calendar_id /\ g[2] = cur.row.origin_event_id)}
                         \cup {<<cur.row.calendar_id, cur.row.origin_event_id,
                                 TheEvent(cur.row.origin_calendar_id, cur.row.origin_event_id).updated>>}
          /\ UNCHANGED writes
       \/ /\ Cardinality({w \in writes : w.op = "record"}) < MaxDbErr
          /\ writes' = writes \cup {RecordLog(cur.row)}
          /\ UNCHANGED <<ledger, rowRev>>
    /\ cur' = NoCur
    /\ destTodo' = Tail(destTodo)
    /\ pc' = "dest"
    /\ UNCHANGED <<registry, config, remote, nextId, clock, cmd, srcTodo, events,
                   allEventsId, toDelete, runs, envs, quiet,
                   runQuiet, crashedMid>>

\* the rows of blockers this source has on one destination
RowsOf(destID, srcID) ==
    {r \in ledger : r.calendar_id = destID /\ r.origin_calendar_id = srcID}

\* provider.GetEvent on the source cannot return a live event: the event is
\* not there, or it is there with status cancelled
SourceGone(srcID, originEventID) ==
    \/ ~Exists(srcID, originEventID)
    \/ TheEvent(srcID, originEventID).status = "cancelled"

\* a row is marked for deletion when its origin event was not listed and
\* GetEvent returned nil (any error) or a cancelled event
Unlisted(rows) == {r \in rows : r.origin_event_id \notin allEventsId}

\* the cleanup of one source: per destination, collect eventsToDelete
ScanStep ==
    /\ UNCHANGED aux
    /\ pc = "scan"
    /\ IF destTodo = <<>>
       THEN /\ srcTodo' = Tail(srcTodo)
            /\ pc' = IF Tail(srcTodo) = <<>> THEN "done" ELSE "list"
            /\ quiet' = (Tail(srcTodo) = <<>>)
            /\ events' = <<>>
            /\ allEventsId' = {}
            /\ UNCHANGED <<destTodo, toDelete>>
       ELSE LET rows == Unlisted(RowsOf(Head(destTodo).ID, Head(srcTodo).ID))
                gone == {r \in rows : SourceGone(Head(srcTodo).ID, r.origin_event_id)}
            IN /\ \E failed \in SUBSET (rows \ gone) :
                    toDelete' = {<<r.event_id, r.origin_event_id>> :
                                   r \in gone \cup failed}
               /\ pc' = "del"
               /\ UNCHANGED <<srcTodo, events, allEventsId, destTodo, quiet>>
    /\ UNCHANGED <<world, clock, cmd, cur, runs, envs, writes,
                   runQuiet, crashedMid, rowRev>>

\* every DeleteEvent error treated as fatal
AnyDeleteErrorIsFatal(targetEvent) == TRUE

\* DeleteEvent returned an error: fatal unless the fetched blocker is
\* already cancelled
DeleteErrorIsFatal(targetEvent) == targetEvent.status # "cancelled"

\* the blocker is no longer on the destination (never there, removed, or a
\* Google tombstone)
Absent(info, id) ==
    \/ ~Exists(info.ID, id)
    \/ info.ProviderType = "google" /\ TheEvent(info.ID, id).status = "cancelled"

DeleteLog(op, dest, id, ok) ==
    [op |-> op, cal |-> dest.ID, id |-> id, oe |-> NoId, src |-> "",
     summary |-> <<>>, ok |-> ok, stale |-> FALSE, absent |-> Absent(dest, id)]

\* the revisions kept for the keys still in the ledger
Keep(rows) ==
    {g \in rowRev : \E r \in rows : r.calendar_id = g[1] /\ r.origin_event_id = g[2]}

\* the event ids in eventsToDelete; the slice has one entry per marked row,
\* so an id that two rows share is in it twice
DeleteIds == {p[1] : p \in toDelete}

\* the entry of eventsToDelete that the loop is at
NextEntry ==
    CHOOSE p \in toDelete :
        /\ p[1] = MinId(DeleteIds)
        /\ \A q \in toDelete : q[1] = p[1] => IdRank(p[2]) <= IdRank(q[2])

\* one entry of eventsToDelete: fetch the blocker, delete it, drop the rows
DeleteStep ==
    /\ UNCHANGED aux
    /\ pc = "del"
    /\ IF toDelete = {}
       THEN /\ destTodo' = Tail(destTodo)
            /\ pc' = "scan"
            /\ UNCHANGED <<remote, ledger, srcTodo, events, allEventsId, cur,
                           toDelete, writes, quiet>>
       ELSE LET dest == Head(destTodo)
                eventID == NextEntry[1]
                goOn == /\ ledger' = DeleteByEventId(ledger, eventID)
                        /\ toDelete' = toDelete \ {NextEntry}
                        /\ UNCHANGED <<pc, srcTodo, events, allEventsId,
                                       destTodo, cur, quiet>>
            IN \/ \* GetEvent on the destination fails: alreadyDeleted
                  /\ writes' = writes \cup {DeleteLog("forget", dest, eventID, TRUE)}
                  /\ goOn
                  /\ UNCHANGED remote
               \/ \* GetEvent and DeleteEvent succeed
                  /\ DeleteCanSucceed(dest, eventID)
                  /\ remote' = Removed(dest, eventID)
                  /\ writes' = writes \cup {DeleteLog("delete", dest, eventID, TRUE)}
                  /\ goOn
               \/ \* GetEvent succeeds, DeleteEvent fails
                  /\ Exists(dest.ID, eventID)
                  /\ writes' = writes \cup {DeleteLog("delete", dest, eventID, FALSE)}
                  /\ UNCHANGED remote
                  /\ IF DeleteErrorIsFatal(TheEvent(dest.ID, eventID))
                     THEN Fatal /\ UNCHANGED ledger
                     ELSE goOn
    /\ rowRev' = Keep(ledger')
    /\ UNCHANGED <<registry, config, nextId, clock, cmd, runs, envs, runQuiet,
                   crashedMid>>

\* the process is stopped in the middle of a run
Crash ==
    /\ UNCHANGED aux
    /\ pc \in Running
    /\ Fatal
    /\ crashedMid' = (crashedMid \/ pc = "upsert")
    /\ UNCHANGED <<world, clock, cmd, runs, envs, writes, runQuiet, rowRev>>

\* ------------------------------------------------------------------------
\* desync, cleanup, delete
\* ------------------------------------------------------------------------
\* the calendars rows a ledger row joins with (LEFT JOIN ... ON calendar_id)
Joined(r) == {c \in RegistryRows : c.calendar_id = r.calendar_id}

\* a ledger row desync cannot process: no calendars row (NULL provider type
\* fails the Scan), or no provider of the row's account for the calendar
Broken(r) ==
    \/ Joined(r) = {}
    \/ \E c \in Joined(r) : c.account_name # r.account_name

\* a calendar of the registry, by its id
InfoOf(calendarID) ==
    CalendarInfo(CHOOSE c \in RegistryRows : c.calendar_id = calendarID)

RECURSIVE RemoveAll(_, _)
\* the remote state after DeleteEvent has succeeded for each (info, id) pair
RemoveAll(rem, pairs) ==
    IF pairs = {} THEN rem
    ELSE LET p == CHOOSE x \in pairs : TRUE
             rest == RemoveAll(rem, pairs \ {p})
         IN IF p[1].ProviderType = "google"
            THEN [rest EXCEPT ![p[1].ID] =
                   {IF e.id = p[2] THEN [e EXCEPT !.status = "cancelled"] ELSE e : e \in @}]
            ELSE [rest EXCEPT ![p[1].ID] = {e \in @ : e.id # p[2]}]

\* DELETE FROM blocker_events WHERE event_id = ? AND calendar_id = ?, for
\* every collected pair
DeletePairs(rows, pairs) ==
    {r \in rows : ~\E p \in pairs : p.event_id = r.event_id /\ p.calendar_id = r.calendar_id}

\* desyncCalendars: delete every recorded blocker (an error is only logged),
\* then delete the rows
Desync ==
    /\ UNCHANGED aux
    /\ pc \in Stopped
    /\ runs < MaxRuns
    /\ runs' = runs + 1
    /\ cmd' = "desync"
    /\ quiet' = FALSE
    /\ NoLocals
    /\ IF GetAllCalendarsFails
       THEN /\ pc' = "refused"
            /\ writes' = {}
            /\ UNCHANGED <<remote, ledger>>
       ELSE
       IF \E r \in ledger : Broken(r)
       THEN \E done \in SUBSET {r \in ledger : ~Broken(r)} :
              /\ \E ok \in SUBSET {r \in done : DeleteCanSucceed(InfoOf(r.calendar_id), r.event_id)} :
                   /\ remote' = RemoveAll(remote, {<<InfoOf(r.calendar_id), r.event_id>> : r \in ok})
                   /\ writes' = {DeleteLog("delete", InfoOf(r.calendar_id), r.event_id, r \in ok) : r \in done}
              /\ pc' = "failed"
              /\ UNCHANGED ledger
       ELSE \E ok \in SUBSET {r \in ledger : DeleteCanSucceed(InfoOf(r.calendar_id), r.event_id)} :
              /\ remote' = RemoveAll(remote, {<<InfoOf(r.calendar_id), r.event_id>> : r \in ok})
              /\ writes' = {DeleteLog("delete", InfoOf(r.calendar_id), r.event_id, r \in ok) : r \in ledger}
              /\ ledger' = DeletePairs(ledger, ledger)
              /\ pc' = "done"
    /\ crashedMid' = FALSE
    /\ rowRev' = Keep(ledger')
    /\ UNCHANGED <<registry, config, nextId, clock, envs, runQuiet>>

\* the events cleanupCalendarWithProvider deletes: listed, marker in summary
Blockers(info) ==
    {e \in remote[info.ID] : ListedFromNow(info, e) /\ HasMarker(e.summary)}

RECURSIVE CleanAll(_, _)
\* the remote state after the calendars of a sequence have been scrubbed
CleanAll(rem, infos) ==
    IF infos = <<>> THEN rem
    ELSE CleanAll(RemoveAll(rem, {<<Head(infos), e.id>> : e \in Blockers(Head(infos))}),
                  Tail(infos))

\* the providers of an account can be set up: cleanupCalendars checks the
\* calendars of an account right before it scrubs them
AccountOK(acct) ==
    \A r \in RegistryRows : r.account_name = acct => ~BadReference(CalendarInfo(r))

\* cleanupCalendars: per calendar, delete every listed event that carries the
\* marker, then DELETE FROM blocker_events WHERE calendar_id = ?; a listing or
\* delete error is fatal
CleanupCmd ==
    /\ UNCHANGED aux
    /\ pc \in Stopped
    /\ runs < MaxRuns
    /\ runs' = runs + 1
    /\ cmd' = "cleanup"
    /\ quiet' = FALSE
    /\ writes' = {}
    /\ NoLocals
    /\ \E order \in Perms(Accounts) :
         \E k \in 0..Len(Flatten(order)) :
           LET infos == Flatten(order)
               cleaned == SubSeq(infos, 1, k)
               ids == {cleaned[i].ID : i \in 1..k}
               mid == CleanAll(remote, cleaned)
           IN /\ \A i \in 1..k : AccountOK(infos[i].account)
              /\ ledger' = {r \in ledger : r.calendar_id \notin ids}
              /\ IF k = Len(infos)
                 THEN /\ remote' = mid
                      /\ pc' = "done"
                 ELSE /\ \E part \in SUBSET Blockers(infos[k + 1]) :
                           /\ (part = Blockers(infos[k + 1]) => part = {})
                           /\ (~AccountOK(infos[k + 1].account) => part = {})
                           /\ remote' = RemoveAll(mid, {<<infos[k + 1], e.id>> : e \in part})
                      /\ pc' = "failed"
    /\ crashedMid' = FALSE
    /\ rowRev' = Keep(ledger')
    /\ UNCHANGED <<registry, config, nextId, clock, envs, runQuiet>>

\* the events the legacy cleanupCalendar deletes: the whole Google listing
\* (no time range), marker in summary
LegacyBlockers(calendarID) ==
    {e \in remote[calendarID] : e.status # "cancelled" /\ HasMarker(e.summary)}

GoogleInfo(calendarID) ==
    [account |-> "", ID |-> calendarID, ProviderType |-> "google",
     ProviderConfig |-> ""]

\* deleteCalendar: scrub the calendar through the Google API, drop its ledger
\* rows, drop it from the registry; a CalDAV collection URL is no Google
\* calendar, so the listing fails for it
DeleteCmd ==
    /\ UNCHANGED aux
    /\ pc \in Stopped
    /\ runs < MaxRuns
    /\ runs' = runs + 1
    /\ cmd' = "delete"
    /\ quiet' = FALSE
    /\ writes' = {}
    /\ NoLocals
    /\ \E calendarID \in CalIds :
         /\ \E c \in RegistryRows : c.calendar_id = calendarID
         /\ \/ /\ InfoOf(calendarID).ProviderType = "google"
               /\ remote' = RemoveAll(remote,
                     {<<GoogleInfo(calendarID), e.id>> : e \in LegacyBlockers(calendarID)})
               /\ ledger' = {r \in ledger : r.calendar_id # calendarID}
               /\ registry' = SelectSeq(registry, LAMBDA c : c.calendar_id # calendarID)
               /\ pc' = "done"
            \/ /\ \E part \in SUBSET LegacyBlockers(calendarID) :
                    /\ (part = LegacyBlockers(calendarID) => part = {})
                    /\ InfoOf(calendarID).ProviderType # "google" => part = {}
                    /\ remote' = RemoveAll(remote,
                          {<<GoogleInfo(calendarID), e.id>> : e \in part})
               /\ pc' = "failed"
               /\ UNCHANGED <<ledger, registry>>
    /\ crashedMid' = FALSE
    /\ rowRev' = Keep(ledger')
    /\ UNCHANGED <<config, nextId, clock, envs, runQuiet>>

Next ==
    \/ CreateEvent
    \/ EditEvent
    \/ CancelEvent
    \/ PurgeEvent
    \/ MoveEvent
    \/ ElapseEvent
    \/ RemoveServer
    \/ Tick
    \/ StartSync
    \/ ListStep
    \/ EventStep
    \/ DestStep
    \/ UpsertStep
    \/ ScanStep
    \/ DeleteStep
    \/ Crash
    \/ Desync
    \/ CleanupCmd
    \/ DeleteCmd

Spec == Init /\ [][Next]_vars

\* ------------------------------------------------------------------------
\* GetAllCalendars, followed calendar by calendar over any registry
\* ------------------------------------------------------------------------
MaxCals == 3

FactoryCalIds == <<"A", "B", "C", "D">>

\* provider type and server name of a registry row
FactoryRows == {<<"google", "">>, <<"", "">>, <<"caldav", "srv">>,
                <<"caldav", "alt">>, <<"caldav", "default">>}

\* the registries of up to MaxCals rows, two accounts
Registries ==
    UNION {[1..n -> {"u1", "u2"} \X FactoryRows] : n \in 0..MaxCals}

NoKey == <<"", "">>

InitFactory ==
    /\ \E f \in Registries :
         registry = [i \in 1..Len(f) |->
                       [account_name |-> f[i][1], calendar_id |-> FactoryCalIds[i],
                        provider_type |-> f[i][2][1], provider_config |-> f[i][2][2]]]
    /\ Idle

\* calendars := getCalendarsFromDB(cf.db); providers := make(...)
FactoryStart ==
    /\ pc = "idle"
    /\ \E order \in Perms(Accounts) :
         /\ fcTodo' = Flatten(order)
         /\ pc' = IF fcTodo' = <<>> THEN "built" ELSE "build"
    /\ calendars' = <<>>
    /\ providers' = {}
    /\ built' = 0
    /\ UNCHANGED <<engine, firstOutcome, oauth, schema, dav, auth, listing, ports, content, filter>>

\* a provider is constructed for every calendar
AlwaysBuild(acct, key) == TRUE

\* if _, exists := providers[accountName][key]; !exists
NeedsProvider(acct, key) ==
    ~\E p \in providers : p.account = acct /\ p.key = key

\* providers[accountName][key] = provider
SetProvider(acct, key, inst) ==
    {p \in providers : ~(p.account = acct /\ p.key = key)}
      \cup {[account |-> acct, key |-> key, inst |-> inst]}

\* one calendar of the loop: check its reference, construct the provider of
\* its key unless the account has one, record the key on a CalDAV calendar
BuildStep ==
    /\ pc = "build"
    /\ LET info == Head(fcTodo)
           key == ProviderKey(info)
           giveUp == /\ calendars' = <<>>
                     /\ providers' = {}
                     /\ fcTodo' = <<>>
                     /\ UNCHANGED built
       IN IF BadReference(info)
          THEN pc' = "refused" /\ giveUp
          ELSE \/ /\ IF NeedsProvider(info.account, key)
                     THEN /\ built' = built + 1
                          /\ providers' = SetProvider(info.account, key, built + 1)
                     ELSE UNCHANGED <<built, providers>>
                  /\ calendars' = Append(calendars,
                        [account |-> info.account, ID |-> info.ID,
                         ProviderType |-> info.ProviderType,
                         ProviderKey |-> IF info.ProviderType = "caldav"
                                         THEN key ELSE NoKey])
                  /\ fcTodo' = Tail(fcTodo)
                  /\ pc' = IF Tail(fcTodo) = <<>> THEN "built" ELSE "build"
               \/ \* the constructor returns an error
                  /\ NeedsProvider(info.account, key)
                  /\ pc' = "failed"
                  /\ giveUp
    /\ UNCHANGED <<engine, firstOutcome, oauth, schema, dav, auth, listing, ports, content, filter>>

\* providerKey := calInfo.ProviderType; if calInfo.ProviderKey != "" { ... };
\* provider := providers[accountName][providerKey]
Resolve(calInfo) ==
    LET providerKey == IF calInfo.ProviderKey # NoKey THEN calInfo.ProviderKey
                       ELSE <<calInfo.ProviderType, "">>
    IN {p \in providers : p.account = calInfo.account /\ p.key = providerKey}

NextFactory ==
    \/ FactoryStart
    \/ BuildStep

SpecFactory == InitFactory /\ [][NextFactory]_vars

\* ------------------------------------------------------------------------
\* add and delete, over any registry
\* ------------------------------------------------------------------------
\* the calendars table has no primary key
NoPrimaryKey(row) == TRUE

\* INSERT INTO calendars under PRIMARY KEY (account_name, calendar_id): the
\* insert succeeds only for a pair that is not registered
CanInsert(row) ==
    ~\E c \in RegistryRows :
        c.account_name = row.account_name /\ c.calendar_id = row.calendar_id

\* addCalendar: validate the access to the calendar, then insert the row; any
\* error is fatal
AddCalendar ==
    /\ UNCHANGED aux
    /\ pc \in Stopped
    /\ runs < MaxRuns
    /\ runs' = runs + 1
    /\ cmd' = "add"
    /\ quiet' = FALSE
    /\ crashedMid' = FALSE
    /\ NoLocals
    /\ \E accountName \in {"u1", "u2"}, calendarID \in CalIds,
          providerType \in {"google", "caldav", "webcal"} :
         \E providerConfig \in IF providerType = "caldav" THEN config ELSE {""} :
           LET row == [account_name |-> accountName, calendar_id |-> calendarID,
                       provider_type |-> providerType,
                       provider_config |-> providerConfig]
               entry == [op |-> "register", cal |-> calendarID, id |-> NoId,
                         oe |-> NoId, src |-> accountName, summary |-> <<>>,
                         ok |-> CanInsert(row), stale |-> FALSE, absent |-> FALSE]
           IN \/ /\ providerType \in {"google", "caldav"}
                 /\ writes' = {entry}
                 /\ IF CanInsert(row)
                    THEN registry' = Append(registry, row) /\ pc' = "done"
                    ELSE UNCHANGED registry /\ pc' = "failed"
              \/ \* unsupported type, or the calendar cannot be reached
                 /\ writes' = {}
                 /\ UNCHANGED registry
                 /\ pc' = "failed"
    /\ UNCHANGED <<config, remote, ledger, nextId, clock, envs, runQuiet, rowRev>>

NextRegistry ==
    \/ AddCalendar
    \/ DeleteCmd

SpecRegistry == InitFactory /\ [][NextRegistry]_vars

\* ------------------------------------------------------------------------
\* GoogleCalendarProvider.ListEvents against a backend that pages
\* ------------------------------------------------------------------------
TheRegistry ==
    <<[account_name |-> "u1", calendar_id |-> "A",
       provider_type |-> "google", provider_config |-> ""],
      [account_name |-> "u2", calendar_id |-> "B",
       provider_type |-> "caldav", provider_config |-> "srv"]>>

\* a calendar of up to MaxItems events, each inside or outside the range
\* asked for, and a backend that puts 1..MaxPage events in a page
InitListing ==
    /\ registry = TheRegistry
    /\ IdleEngine
    /\ IdleFactory
    /\ onServer \in [1..MaxItems -> {"none", "in", "out"}]
    /\ pageSize \in 1..MaxPage
    /\ items = <<>>
    /\ nextPageToken = 0
    /\ IdlePorts
    /\ IdleContent
    /\ IdleFilter
    /\ IdleAuth
    /\ firstOutcome = NoOutcome
    /\ IdleDav
    /\ IdleSchema
    /\ IdleOauth

\* the events TimeMin/TimeMax select, in the order OrderBy("startTime") gives
RECURSIVE Matching(_)
Matching(n) ==
    IF n = 0 THEN <<>>
    ELSE IF onServer[n] = "in" THEN Append(Matching(n - 1), n)
         ELSE Matching(n - 1)

\* the response of one Events.List(...).Do(): the page that starts at `from`
\* and the token of the page after it, 0 when there is none
Page(from) ==
    LET all == Matching(MaxItems)
        last == IF from + pageSize - 1 < Len(all) THEN from + pageSize - 1
                ELSE Len(all)
    IN [Items |-> SubSeq(all, from, last),
        NextPageToken |-> IF last < Len(all) THEN last + 1 ELSE 0]

\* ListEvents: one Do(), and the Items of that response are the result
GoogleListEvents ==
    /\ pc = "idle"
    /\ items' = Page(1).Items
    /\ nextPageToken' = Page(1).NextPageToken
    /\ pc' = "listed"
    /\ UNCHANGED <<engine, firstOutcome, oauth, schema, dav, auth, factory, ports, content, filter, onServer, pageSize>>

NextListing == GoogleListEvents

SpecListing == InitListing /\ [][NextListing]_vars

\* ------------------------------------------------------------------------
\* findAvailablePort
\* ------------------------------------------------------------------------
RECURSIVE PortLists(_)
PortLists(n) ==
    IF n = 0 THEN {<<>>}
    ELSE PortLists(n - 1) \cup
         {Append(l, p) : l \in {x \in PortLists(n - 1) : Len(x) = n - 1},
                         p \in 1..MaxPorts}

\* any authorized_ports of up to MaxPorts entries, any set of ports in use
InitPorts ==
    /\ registry = TheRegistry
    /\ IdleEngine
    /\ IdleFactory
    /\ IdleListing
    /\ authorizedPorts \in PortLists(MaxPorts)
    /\ free \in SUBSET (1..MaxPorts)
    /\ portIdx = 0
    /\ listener = 0
    /\ IdleContent
    /\ IdleFilter
    /\ IdleAuth
    /\ firstOutcome = NoOutcome
    /\ IdleDav
    /\ IdleSchema
    /\ IdleOauth

\* the loop gives up after the first port
OnlyFirst(i) == i <= 1 /\ i <= Len(authorizedPorts)

\* for _, port := range authorizedPorts
MorePorts(i) == i <= Len(authorizedPorts)

\* net.Listen("tcp", "localhost:<port>") returns no error
CanListen(port) == port \in free

FindStart ==
    /\ pc = "idle"
    /\ portIdx' = 1
    /\ pc' = "listen"
    /\ UNCHANGED <<engine, firstOutcome, oauth, schema, dav, auth, factory, listing, content, filter, authorizedPorts, free, listener>>

\* one round of the loop, or the error after it
ListenStep ==
    /\ pc = "listen"
    /\ IF MorePorts(portIdx)
       THEN IF CanListen(authorizedPorts[portIdx])
            THEN /\ listener' = authorizedPorts[portIdx]
                 /\ pc' = "bound"
                 /\ UNCHANGED portIdx
            ELSE /\ portIdx' = portIdx + 1
                 /\ UNCHANGED <<pc, listener>>
       ELSE /\ pc' = "noport"
            /\ UNCHANGED <<portIdx, listener>>
    /\ UNCHANGED <<engine, firstOutcome, oauth, schema, dav, auth, factory, listing, content, filter, authorizedPorts, free>>

NextPorts ==
    \/ FindStart
    \/ ListenStep

SpecPorts == InitPorts /\ [][NextPorts]_vars

\* ------------------------------------------------------------------------
\* The blocker built from a source event
\* ------------------------------------------------------------------------
\* any event that passed the filters: a summary without the marker, any
\* description, any start, and an end that may be unset
InitContent ==
    /\ registry = TheRegistry
    /\ IdleEngine
    /\ IdleFactory
    /\ IdleListing
    /\ IdlePorts
    /\ \E id \in UserEventIds, d \in {"", "notes"}, st \in {"confirmed", "tentative", ""} :
         sourceEvent \in [Summary : {<<Title(id)>>, <<Title(id), "working location">>},
                          Description : {d}, Start : 0..MaxHour,
                          End : 0..(MaxHour + 1), Status : {st}]
    /\ blockerEvent = NoEvent
    /\ IdleFilter
    /\ IdleAuth
    /\ firstOutcome = NoOutcome
    /\ IdleDav
    /\ IdleSchema
    /\ IdleOauth

\* the end of the source event is copied as it is
EndCopied(event) == event.End

\* endTime := event.End; if endTime.IsZero() { endTime = event.Start.Add(time.Hour) }
EndTime(event) ==
    IF event.End = ZeroTime THEN event.Start + Hour ELSE event.End

\* blockerEvent := &Event{...}
NewBlocker(event) ==
    [Summary |-> BlockerSummary(event.Summary),
     Description |-> event.Description,
     Start |-> event.Start,
     End |-> EndTime(event),
     Status |-> "confirmed"]

\* the blocker is built and handed to UpdateEvent or AddEvent
BuildBlocker ==
    /\ pc = "idle"
    /\ blockerEvent' = NewBlocker(sourceEvent)
    /\ pc' = "passed"
    /\ UNCHANGED <<engine, firstOutcome, oauth, schema, dav, auth, factory, listing, ports, filter, sourceEvent>>

NextContent == BuildBlocker

SpecContent == InitContent /\ [][NextContent]_vars

\* ------------------------------------------------------------------------
\* The filter of the propagation loop, from the backend's event resource on
\* ------------------------------------------------------------------------
\* the kinds of event the Google backend has (Event.eventType); a CalDAV
\* VEVENT has none
EventTypes(provider) ==
    IF provider = "google"
    THEN {"default", "workingLocation", "outOfOffice", "focusTime"}
    ELSE {"default"}

\* any event resource of either backend
InitFilter ==
    /\ registry = TheRegistry
    /\ IdleEngine
    /\ IdleFactory
    /\ IdleListing
    /\ IdlePorts
    /\ IdleContent
    /\ \E p \in {"google", "caldav"} :
         item \in [provider : {p}, Id : UserEventIds,
                   Summary : {<<"t1">>, <<"Office">>, <<"working location">>,
                              <<"O_o", "t1">>},
                   EventType : EventTypes(p)]
    /\ verdict = NoVerdict
    /\ IdleAuth
    /\ firstOutcome = NoOutcome
    /\ IdleDav
    /\ IdleSchema
    /\ IdleOauth

\* the Event a provider's ListEvents builds from the resource: ID, Summary,
\* Description, Start, End, Status
Converted(it) ==
    [Summary |-> it.Summary, Description |-> "", Start |-> Hour,
     End |-> Hour + Hour, Status |-> "confirmed"]

\* ListEvents returns the event
ConvertStep ==
    /\ pc = "idle"
    /\ verdict' = [event |-> Converted(item), id |-> item.Id, seen |-> FALSE]
    /\ pc' = "listed"
    /\ UNCHANGED <<engine, firstOutcome, oauth, schema, dav, auth, factory, listing, ports, content, item>>

\* one round of the loop over the listed events: the id is noted, then the
\* event is passed over or mirrored
FilterStep ==
    /\ pc = "listed"
    /\ verdict' = [verdict EXCEPT !.seen = TRUE]
    /\ pc' = IF Unmirrored([ProviderType |-> item.provider],
                           [summary |-> verdict.event.Summary])
             THEN "skipped" ELSE "mirrored"
    /\ UNCHANGED <<engine, firstOutcome, oauth, schema, dav, auth, factory, listing, ports, content, item>>

NextFilter ==
    \/ ConvertStep
    \/ FilterStep

SpecFilter == InitFilter /\ [][NextFilter]_vars

\* ------------------------------------------------------------------------
\* getClient and the table tokens
\* ------------------------------------------------------------------------
\* what a stored token is to the token source: usable as it is, expired with
\* a refresh token that works, expired or revoked for good (the errors the
\* code recognises), or failing with some other error
TokenStates == {"valid", "expired", "revoked", "broken"}

StoredToken(st) == [id |-> <<"old", 0>>, state |-> st]

\* any table with at most one token per account, and a call for either account
InitAuth ==
    /\ registry = TheRegistry
    /\ IdleEngine
    /\ IdleFactory
    /\ IdleListing
    /\ IdlePorts
    /\ IdleContent
    /\ item = NoItem
    /\ verdict = NoVerdict
    /\ \E f \in [{"u1", "u2"} -> TokenStates \cup {"none"}] :
         tokenStore = {[account_name |-> a, token |-> StoredToken(f[a])] :
                          a \in {x \in {"u1", "u2"} : f[x] # "none"}}
    /\ caller \in {"u1", "u2"}
    /\ loaded = NoToken
    /\ client = NoToken
    /\ flows = 0
    /\ firstOutcome = NoOutcome
    /\ IdleDav
    /\ IdleSchema
    /\ IdleOauth

\* INSERT OR REPLACE INTO tokens under PRIMARY KEY account_name
SaveRow(rows, accountName, token) ==
    {r \in rows : r.account_name # accountName}
      \cup {[account_name |-> accountName, token |-> token]}

\* saveToken as getClient calls it: the error it returns is dropped, so the
\* table is either written or left as it was
SaveToken(accountName, token) ==
    \/ tokenStore' = SaveRow(tokenStore, accountName, token)
    \/ UNCHANGED tokenStore

\* SELECT token FROM tokens WHERE account_name = ?
GetClientStart ==
    /\ pc = "idle"
    /\ LET rows == {r \in tokenStore : r.account_name = caller}
       IN IF rows = {}
          THEN pc' = "reauth" /\ UNCHANGED loaded
          ELSE \/ /\ loaded' = (CHOOSE r \in rows : TRUE).token
                  /\ pc' = "source"
               \/ \* the query fails: log.Fatalf
                  /\ pc' = "failed"
                  /\ UNCHANGED loaded
    /\ UNCHANGED <<engine, firstOutcome, oauth, schema, dav, factory, listing, ports, content, filter,
                   tokenStore, caller, client, flows>>

\* newToken, err := tokenSource.Token()
TokenSourceStep ==
    /\ pc = "source"
    /\ \/ /\ loaded.state = "valid"
          /\ pc' = "expiry"
          /\ UNCHANGED tokenStore
       \/ \* refreshed: the access token differs and the new token is saved
          /\ loaded.state = "expired"
          /\ SaveToken(caller, [id |-> <<"refreshed", 1>>, state |-> "valid"])
          /\ pc' = "expiry"
       \/ \* expired or revoked for good: the row is deleted (an error of the
          \* delete is only logged) and a new token is obtained
          /\ loaded.state = "revoked"
          /\ \/ tokenStore' = {r \in tokenStore : r.account_name # caller}
             \/ UNCHANGED tokenStore
          /\ pc' = "reauth"
       \/ \* any other error: log.Fatalf
          /\ loaded.state = "broken"
          /\ pc' = "failed"
          /\ UNCHANGED tokenStore
    /\ UNCHANGED <<engine, firstOutcome, oauth, schema, dav, factory, listing, ports, content, filter,
                   caller, loaded, client, flows>>

\* token := getTokenFromWeb(config, cfg); saveToken(...); return config.Client
ReauthStep ==
    /\ pc = "reauth"
    /\ flows' = flows + 1
    /\ \/ /\ SaveToken(caller, [id |-> <<"web", flows + 1>>, state |-> "valid"])
          /\ client' = [id |-> <<"web", flows + 1>>, state |-> "valid"]
          /\ pc' = "returned"
       \/ \* no port, or the exchange of the code fails: log.Fatalf
          /\ pc' = "failed"
          /\ UNCHANGED <<tokenStore, client>>
    /\ UNCHANGED <<engine, firstOutcome, oauth, schema, dav, factory, listing, ports, content, filter,
                   caller, loaded>>

\* if token.Expiry.Before(time.Now()): refresh again, save and return;
\* otherwise return the client of the token that was read
ExpiryStep ==
    /\ pc = "expiry"
    /\ IF loaded.state = "expired"
       THEN \/ /\ SaveToken(caller, [id |-> <<"refreshed", 2>>, state |-> "valid"])
               /\ client' = [id |-> <<"refreshed", 2>>, state |-> "valid"]
               /\ pc' = "returned"
            \/ /\ pc' = "failed"
               /\ UNCHANGED <<tokenStore, client>>
       ELSE /\ client' = loaded
            /\ pc' = "returned"
            /\ UNCHANGED tokenStore
    /\ UNCHANGED <<engine, firstOutcome, oauth, schema, dav, factory, listing, ports, content, filter,
                   caller, loaded, flows>>

NextAuth ==
    \/ GetClientStart
    \/ TokenSourceStep
    \/ ReauthStep
    \/ ExpiryStep

SpecAuth == InitAuth /\ [][NextAuth]_vars

\* ------------------------------------------------------------------------
\* One sync run over three calendars, taken twice from the same state
\* ------------------------------------------------------------------------
OrderCalIds == {"A", "B", "C"}

\* three calendars of three accounts: two Google, one CalDAV
OrderRegistry ==
    <<[account_name |-> "u1", calendar_id |-> "A",
       provider_type |-> "google", provider_config |-> ""],
      [account_name |-> "u2", calendar_id |-> "B",
       provider_type |-> "caldav", provider_config |-> "srv"],
      [account_name |-> "u3", calendar_id |-> "C",
       provider_type |-> "google", provider_config |-> ""]>>

\* an appointment of a user
UserEvent(id) ==
    [id |-> id, summary |-> <<Title(id)>>, status |-> "confirmed",
     updated |-> 1, inWindow |-> TRUE, upcoming |-> TRUE]

\* the calendars with the two appointments placed on them
OrderRemote(c1, c2) ==
    [c \in OrderCalIds |->
        (IF c = c1 THEN {UserEvent(<<"e", 1>>)} ELSE {})
          \cup (IF c = c2 THEN {UserEvent(<<"e", 2>>)} ELSE {})]

\* the calendars before the first run: every event that is not a blocker
Before ==
    [c \in OrderCalIds |-> {e \in remote[c] : e.id \in UserEventIds}]

InitOrder ==
    /\ registry = OrderRegistry
    /\ config = {"srv"}
    /\ \E c1 \in OrderCalIds, c2 \in OrderCalIds : remote = OrderRemote(c1, c2)
    /\ ledger = {}
    /\ clock = 1
    /\ nextId = 1
    /\ rowRev = {}
    /\ IdleRun
    /\ IdleFactory
    /\ IdleListing
    /\ IdlePorts
    /\ IdleContent
    /\ IdleFilter
    /\ IdleAuth
    /\ firstOutcome = NoOutcome
    /\ IdleDav
    /\ IdleSchema
    /\ IdleOauth

\* what a run ended with, without the identifiers of the blockers: per
\* calendar the summaries of the blockers and their number, and the ledger
\* rows without event_id
Outcome ==
    [blockers |-> [c \in OrderCalIds |->
                     LET b == {e \in remote[c] : HasMarker(e.summary)}
                     IN <<{e.summary : e \in b}, Cardinality(b)>>],
     rows |-> {<<r.calendar_id, r.origin_calendar_id, r.origin_event_id>> :
                 r \in ledger},
     kept |-> TRUE]

\* the calendars and the ledger are put back as they were before the run, to
\* take the same run again; the order of "range calendars" is free each time
Again ==
    /\ cmd = "sync"
    /\ pc = "done"
    /\ ~firstOutcome.kept
    /\ \A w \in writes : w.ok
    /\ firstOutcome' = Outcome
    /\ remote' = Before
    /\ ledger' = {}
    /\ nextId' = 1
    /\ rowRev' = {}
    /\ pc' = "idle"
    /\ writes' = {}
    /\ quiet' = FALSE
    /\ UNCHANGED <<registry, config, clock, cmd, locals, runs, envs, runQuiet,
                   crashedMid>>
    /\ UNCHANGED <<factory, listing, ports, content, filter, auth, dav, schema, oauth>>

NextOrder ==
    \/ StartSync
    \/ ListStep
    \/ EventStep
    \/ DestStep
    \/ UpsertStep
    \/ ScanStep
    \/ DeleteStep
    \/ Tick
    \/ Again

SpecOrder == InitOrder /\ [][NextOrder]_vars

\* ------------------------------------------------------------------------
\* The CalDAV provider: AddEvent, GetEvent, DeleteEvent on one collection
\* ------------------------------------------------------------------------
\* texts are sequences of characters; the comma stands for the characters
\* that iCalendar escapes in a TEXT value
Chars == {"a", ","}

Texts(n) == UNION {[1..k -> Chars] : k \in 0..n}

\* Props.SetText of go-ical: a backslash goes before \ ; and ,
RECURSIVE SetText(_)
SetText(text) ==
    IF text = <<>> THEN <<>>
    ELSE (IF Head(text) \in {"\\", ";", ","}
          THEN <<"\\", Head(text)>> ELSE <<Head(text)>>) \o SetText(Tail(text))

\* Props.SetDateTime: the value is written to the second
SetDateTime(t) == t.sec

\* Props.DateTime: the time the value names
DateTime(value) == [sec |-> value, nsec |-> 0]

\* strings.ToLower on the STATUS values
ToLower(status) ==
    CASE status = "CONFIRMED" -> "confirmed"
      [] status = "CANCELLED" -> "cancelled"
      [] status = "TENTATIVE" -> "tentative"
      [] OTHER -> status

\* getTextProp: the Value of the property as it is stored, "" when absent
getTextProp(props, name) ==
    IF name \in DOMAIN props THEN props[name] ELSE ""

\* calURL.Path + "/" + eventID + ".ics"
EventPath(calendar, eventID) == calendar \o <<"/", eventID, ".ics">>

\* collection URLs, by their path: without and with a trailing slash
CalendarPaths == {<<"/cal">>, <<"/cal", "/">>}

Instants == [sec : 1..MaxHour, nsec : {0, 1}]

InitCalDAV ==
    /\ registry = TheRegistry
    /\ IdleEngine
    /\ IdleFactory
    /\ IdleListing
    /\ IdlePorts
    /\ IdleContent
    /\ IdleFilter
    /\ IdleAuth
    /\ firstOutcome = NoOutcome
    /\ IdleSchema
    /\ IdleOauth
    /\ davCalendar \in CalendarPaths
    /\ newEvent \in [ID : {NoId}, Summary : Texts(MaxText),
                     Description : Texts(1), Start : Instants,
                     End : Instants, Status : {"", "tentative"}]
    /\ objects = {}
    /\ lastAdd = NoCall
    /\ lastGet = [event |-> NoDavEvent, path |-> <<>>, err |-> FALSE,
                  called |-> FALSE]
    /\ lastDelete = NoCall

\* the VEVENT that AddEvent builds
NewObject(eventUID, event) ==
    [UID |-> eventUID,
     SUMMARY |-> SetText(event.Summary),
     DESCRIPTION |-> SetText(event.Description),
     DTSTART |-> SetDateTime(event.Start),
     DTEND |-> SetDateTime(event.End),
     STATUS |-> "CONFIRMED"]

\* the Event that GetEvent builds from a VEVENT
ReadObject(props) ==
    [ID |-> getTextProp(props, "UID"),
     Summary |-> getTextProp(props, "SUMMARY"),
     Description |-> getTextProp(props, "DESCRIPTION"),
     Start |-> DateTime(props["DTSTART"]),
     End |-> DateTime(props["DTEND"]),
     Status |-> IF getTextProp(props, "STATUS") = "" THEN "confirmed"
                ELSE ToLower(getTextProp(props, "STATUS"))]

\* PutCalendarObject: creates the resource or replaces it
PutCalendarObject(path, data) ==
    {o \in objects : o.path # path} \cup {[path |-> path, data |-> data]}

CalDAVAddEvent ==
    /\ pc = "idle"
    /\ \E now \in 1..MaxClock :
         LET eventUID == <<"gcalsync", now>>
             path == EventPath(davCalendar, eventUID)
         IN \/ /\ objects' = PutCalendarObject(path, NewObject(eventUID, newEvent))
               /\ lastAdd' = [id |-> eventUID, path |-> path, err |-> FALSE,
                              called |-> TRUE]
               /\ pc' = "added"
            \/ /\ lastAdd' = [id |-> NoId, path |-> path, err |-> TRUE,
                              called |-> TRUE]
               /\ pc' = "failed"
               /\ UNCHANGED objects
    /\ UNCHANGED <<engine, firstOutcome, oauth, schema, factory, listing, ports, content,
                   filter, auth, davCalendar, newEvent, lastGet, lastDelete>>

CalDAVGetEvent ==
    /\ pc \in {"added", "deleted"}
    /\ LET path == EventPath(davCalendar, lastAdd.id)
           found == {o \in objects : o.path = path}
       IN \/ /\ found # {}
             /\ \E o \in found :
                  lastGet' = [event |-> ReadObject(o.data), path |-> path,
                              err |-> FALSE, called |-> TRUE]
          \/ lastGet' = [event |-> NoDavEvent, path |-> path, err |-> TRUE,
                         called |-> TRUE]
    /\ pc' = IF pc = "added" THEN "got" ELSE "gone"
    /\ UNCHANGED <<engine, firstOutcome, oauth, schema, factory, listing, ports, content,
                   filter, auth, davCalendar, newEvent, objects, lastAdd,
                   lastDelete>>

CalDAVDeleteEvent ==
    /\ pc = "got"
    /\ LET path == EventPath(davCalendar, lastAdd.id)
       IN \/ /\ \E o \in objects : o.path = path
             /\ objects' = {o \in objects : o.path # path}
             /\ lastDelete' = [id |-> lastAdd.id, path |-> path, err |-> FALSE,
                               called |-> TRUE]
             /\ pc' = "deleted"
          \/ /\ lastDelete' = [id |-> lastAdd.id, path |-> path, err |-> TRUE,
                               called |-> TRUE]
             /\ pc' = "failed"
             /\ UNCHANGED objects
    /\ UNCHANGED <<engine, firstOutcome, oauth, schema, factory, listing, ports, content,
                   filter, auth, davCalendar, newEvent, lastAdd, lastGet>>

NextCalDAV ==
    \/ CalDAVAddEvent
    \/ CalDAVGetEvent
    \/ CalDAVDeleteEvent

SpecCalDAV == InitCalDAV /\ [][NextCalDAV]_vars

\* ------------------------------------------------------------------------
\* Sync runs over three calendars, two of which list an event under the same
\* identifier (an invitation that both accounts hold)
\* ------------------------------------------------------------------------
\* e1 on A and on C, under one summary or under two
SharedRemote(summary) ==
    [c \in OrderCalIds |->
        IF c = "A" THEN {UserEvent(<<"e", 1>>)}
        ELSE IF c = "C"
             THEN {[UserEvent(<<"e", 1>>) EXCEPT !.summary = summary]}
             ELSE {}]

InitShared ==
    /\ registry = OrderRegistry
    /\ config = {"srv"}
    /\ \E summary \in {<<"t1">>, <<"t2">>} : remote = SharedRemote(summary)
    /\ ledger = {}
    /\ clock = 1
    /\ nextId = 1
    /\ rowRev = {}
    /\ IdleRun
    /\ IdleFactory
    /\ IdleListing
    /\ IdlePorts
    /\ IdleContent
    /\ IdleFilter
    /\ IdleAuth
    /\ firstOutcome = NoOutcome
    /\ IdleDav
    /\ IdleSchema
    /\ IdleOauth

NextShared ==
    \/ StartSync
    \/ ListStep
    \/ EventStep
    \/ DestStep
    \/ UpsertStep
    \/ ScanStep
    \/ DeleteStep
    \/ Tick

SpecShared == InitShared /\ [][NextShared]_vars

\* ------------------------------------------------------------------------
\* dbInit: the schema and its recorded version
\* ------------------------------------------------------------------------
LastVersion == 3

AllTables == {"tokens", "calendars", "blocker_events"}

\* the column that the step from version v adds to blocker_events
ColumnOf(v) == IF v = 1 THEN "last_updated" ELSE "origin_calendar_id"

\* the schema that dbInit leaves when it has recorded version v
TablesAt(v) == IF v >= 1 THEN AllTables ELSE {}

ColumnsAt(v) == {ColumnOf(w) : w \in {x \in 1..2 : x < v}}

\* the database is as some complete run of the steps up to a version left it
Consistent ==
    /\ versionTable = (dbVersionRow # NoVersion)
    /\ tables = TablesAt(dbVersionRow)
    /\ columns = ColumnsAt(dbVersionRow)

\* the local dbVersion stays where it is
SameVersion(v) == v

\* dbVersion = 1, dbVersion = 2, dbVersion = 3
NextVersion(v) == v + 1

\* a database at any recorded version, or a new file
InitSchema ==
    /\ registry = TheRegistry
    /\ IdleEngine
    /\ IdleFactory
    /\ IdleListing
    /\ IdlePorts
    /\ IdleContent
    /\ IdleFilter
    /\ IdleAuth
    /\ firstOutcome = NoOutcome
    /\ IdleDav
    /\ IdleOauth
    /\ dbVersionRow \in {NoVersion} \cup 0..LastVersion
    /\ Consistent
    /\ dbVersion = 0
    /\ dbRun = NoDbRun
    /\ starts = 0

DbStopped == {"idle", "done", "failed", "killed"}

DbRunning == {"create", "insert", "if0", "calendars", "blocker_events",
              "set", "if1", "if2"}

SchemaFrame ==
    UNCHANGED <<engine, firstOutcome, oauth, factory, listing, ports, content,
                filter, auth, dav>>

\* SELECT version FROM db_version WHERE name='gcalsync'
QueryVersion ==
    /\ pc \in DbStopped
    /\ starts < MaxStarts
    /\ starts' = starts + 1
    /\ dbRun' = [from |-> dbVersionRow, clean |-> Consistent, killed |-> FALSE]
    /\ IF versionTable /\ dbVersionRow # NoVersion
       THEN /\ dbVersion' = dbVersionRow
            /\ pc' = "if0"
       ELSE /\ dbVersion' = 0
            /\ pc' = "create"
    /\ UNCHANGED <<versionTable, dbVersionRow, tables, columns>>
    /\ SchemaFrame

\* CREATE TABLE IF NOT EXISTS db_version
CreateVersionTable ==
    /\ pc = "create"
    /\ versionTable' = TRUE
    /\ pc' = "insert"
    /\ UNCHANGED <<dbVersionRow, tables, columns, dbVersion, dbRun, starts>>
    /\ SchemaFrame

\* INSERT INTO db_version (name, version) VALUES ('gcalsync', 0)
InsertVersion ==
    /\ pc = "insert"
    /\ IF dbVersionRow = NoVersion
       THEN /\ dbVersionRow' = 0
            /\ dbVersion' = 0
            /\ pc' = "if0"
       ELSE /\ pc' = "failed"
            /\ UNCHANGED <<dbVersionRow, dbVersion>>
    /\ UNCHANGED <<versionTable, tables, columns, dbRun, starts>>
    /\ SchemaFrame

\* CREATE TABLE IF NOT EXISTS tokens, calendars, blocker_events, one
\* statement at a time; a version other than 0 goes on to the next test
CreateTable ==
    /\ \/ /\ pc = "if0"
          /\ IF dbVersion = 0
             THEN /\ tables' = tables \cup {"tokens"}
                  /\ pc' = "calendars"
             ELSE /\ pc' = "if1"
                  /\ UNCHANGED tables
       \/ /\ pc = "calendars"
          /\ tables' = tables \cup {"calendars"}
          /\ pc' = "blocker_events"
    /\ UNCHANGED <<versionTable, dbVersionRow, columns, dbVersion, dbRun, starts>>
    /\ SchemaFrame

\* the last CREATE TABLE of the first step, then dbVersion = 1
CreateBlockerEvents ==
    /\ pc = "blocker_events"
    /\ tables' = tables \cup {"blocker_events"}
    /\ dbVersion' = NextVersion(dbVersion)
    /\ pc' = "set"
    /\ UNCHANGED <<versionTable, dbVersionRow, columns, dbRun, starts>>
    /\ SchemaFrame

\* ALTER TABLE blocker_events ADD COLUMN ..., then dbVersion = v + 1; the
\* statement fails when the table is missing or has the column already
AddColumn ==
    /\ pc \in {"if1", "if2"}
    /\ LET v == IF pc = "if1" THEN 1 ELSE 2
       IN IF dbVersion # v
          THEN /\ pc' = IF pc = "if1" THEN "if2" ELSE "done"
               /\ UNCHANGED <<columns, dbVersion>>
          ELSE IF "blocker_events" \in tables /\ ColumnOf(v) \notin columns
               THEN /\ columns' = columns \cup {ColumnOf(v)}
                    /\ dbVersion' = NextVersion(dbVersion)
                    /\ pc' = "set"
               ELSE /\ pc' = "failed"
                    /\ UNCHANGED <<columns, dbVersion>>
    /\ UNCHANGED <<versionTable, dbVersionRow, tables, dbRun, starts>>
    /\ SchemaFrame

\* UPDATE db_version SET version = dbVersion WHERE name = 'gcalsync'
SetVersion ==
    /\ pc = "set"
    /\ dbVersionRow' = IF dbVersionRow = NoVersion THEN NoVersion ELSE dbVersion
    /\ pc' = IF dbVersion = 1 THEN "if1"
             ELSE IF dbVersion = 2 THEN "if2" ELSE "done"
    /\ UNCHANGED <<versionTable, tables, columns, dbVersion, dbRun, starts>>
    /\ SchemaFrame

\* the process is stopped between two statements
Kill ==
    /\ pc \in DbRunning
    /\ pc' = "killed"
    /\ dbRun' = [dbRun EXCEPT !.killed = TRUE]
    /\ UNCHANGED <<versionTable, dbVersionRow, tables, columns, dbVersion, starts>>
    /\ SchemaFrame

NextSchema ==
    \/ QueryVersion
    \/ CreateVersionTable
    \/ InsertVersion
    \/ CreateTable
    \/ CreateBlockerEvents
    \/ AddColumn
    \/ SetVersion
    \/ Kill

SpecSchema == InitSchema /\ [][NextSchema]_vars

\* ------------------------------------------------------------------------
\* Sync runs on a ledger in which two rows share an event_id: e1 and e2 of A
\* were mirrored to the CalDAV calendar B within one second
\* ------------------------------------------------------------------------
\* the row that the sync of second 1 recorded for an event of A
CollidedRow(id) ==
    [event_id |-> <<"gcalsync", 1>>, origin_calendar_id |-> "A",
     calendar_id |-> "B", account_name |-> "u2", origin_event_id |-> id,
     last_updated |-> <<"t", 1>>, response_status |-> "accepted"]

\* B holds the blocker written last; the user has since removed none, one or
\* both of the events from A
InitCollided ==
    /\ registry = TheRegistry
    /\ config = {"srv"}
    /\ \E kept \in SUBSET UserEventIds :
         remote = [c \in CalIds |->
                     IF c = "A" THEN {UserEvent(id) : id \in kept}
                     ELSE {Stored(<<"gcalsync", 1>>,
                                  BlockerEvent(UserEvent(<<"e", 2>>)))}]
    /\ ledger = {CollidedRow(id) : id \in UserEventIds}
    /\ clock = 1
    /\ nextId = 1
    /\ rowRev = {<<"B", id, 1>> : id \in UserEventIds}
    /\ IdleRun
    /\ IdleFactory
    /\ IdleListing
    /\ IdlePorts
    /\ IdleContent
    /\ IdleFilter
    /\ IdleAuth
    /\ firstOutcome = NoOutcome
    /\ IdleDav
    /\ IdleSchema
    /\ IdleOauth

NextCollided ==
    \/ StartSync
    \/ ListStep
    \/ EventStep
    \/ DestStep
    \/ UpsertStep
    \/ ScanStep
    \/ DeleteStep
    \/ Tick

SpecCollided == InitCollided /\ [][NextCollided]_vars

\* ------------------------------------------------------------------------
\* getTokenFromWeb: the callback server and the caller that waits on codeChan
\* ------------------------------------------------------------------------
\* the values of r.URL.Query().Get("code"): "" when the request has no code
Codes == {"", "code"}

OauthFrame ==
    UNCHANGED <<engine, firstOutcome, factory, listing, ports, content,
                filter, auth, dav, schema>>

\* go server.Serve(listener); the caller goes on to code := <-codeChan
ServeStart ==
    /\ pc = "idle"
    /\ serving' = TRUE
    /\ pc' = "waiting"
    /\ UNCHANGED <<handlers, authCode>>
    /\ OauthFrame

\* a request reaches the server: its handler reads the code parameter and
\* blocks in codeChan <- code
HandlerStart(i) ==
    /\ serving
    /\ handlers[i].at = "none"
    /\ \E code \in Codes :
         handlers' = [handlers EXCEPT ![i] = [code |-> code, at |-> "send"]]
    /\ UNCHANGED <<pc, serving, authCode>>
    /\ OauthFrame

\* the unbuffered channel: a send and the receive of the caller meet; the
\* handler goes on to write the response and to start the shutdown goroutine
Receive(i) ==
    /\ pc = "waiting"
    /\ handlers[i].at = "send"
    /\ authCode' = handlers[i].code
    /\ handlers' = [handlers EXCEPT ![i].at = "replied"]
    /\ pc' = "exchange"
    /\ UNCHANGED serving
    /\ OauthFrame

\* time.Sleep(time.Second); server.Shutdown: no further request is accepted
Shutdown ==
    /\ serving
    /\ \E i \in 1..MaxRequests : handlers[i].at = "replied"
    /\ serving' = FALSE
    /\ UNCHANGED <<pc, handlers, authCode>>
    /\ OauthFrame

\* config.Exchange: an empty code is refused and log.Fatalf ends the process
\* with all its goroutines; otherwise the token is returned and the deferred
\* listener.Close() runs
Exchange ==
    /\ pc = "exchange"
    /\ serving' = FALSE
    /\ \/ /\ authCode # ""
          /\ pc' = "returned"
          /\ UNCHANGED handlers
       \/ /\ pc' = "failed"
          /\ handlers' = [i \in 1..MaxRequests |->
                            IF handlers[i].at = "send"
                            THEN [handlers[i] EXCEPT !.at = "exited"]
                            ELSE handlers[i]]
    /\ UNCHANGED authCode
    /\ OauthFrame

InitOauth ==
    /\ registry = TheRegistry
    /\ IdleEngine
    /\ IdleFactory
    /\ IdleListing
    /\ IdlePorts
    /\ IdleContent
    /\ IdleFilter
    /\ IdleAuth
    /\ firstOutcome = NoOutcome
    /\ IdleDav
    /\ IdleSchema
    /\ IdleOauth

NextOauth ==
    \/ ServeStart
    \/ \E i \in 1..MaxRequests : HandlerStart(i)
    \/ \E i \in 1..MaxRequests : Receive(i)
    \/ Shutdown
    \/ Exchange

SpecOauth == InitOauth /\ [][NextOauth]_vars

\* ------------------------------------------------------------------------
\* Properties
\* ------------------------------------------------------------------------
\* the tracked calendars, and the events sync mirrors from one of them
Tracked == {CalendarInfo(r) : r \in RegistryRows}

Mirrored(src) ==
    {e \in remote[src.ID] : Listed(src, e) /\ ~Unmirrored(src, ToEvent(e))}

\* the blockers present on a calendar for a given source summary
BlockersFor(dest, summary) ==
    {b \in remote[dest.ID] : ~Absent(dest, b.id) /\ b.summary = BlockerSummary(summary)}

\* C1: a sync run that starts right after a completed sync run, with no
\* change to any remote calendar in between, issues no AddEvent, UpdateEvent
\* or DeleteEvent and does not touch the ledger.
C1_IdempotentSync == (cmd = "sync" /\ runQuiet) => writes = {}

\* C2: when a source event has a ledger row for a destination and its
\* revision has changed since the row was written, the next sync issues
\* exactly one UpdateEvent and no AddEvent for the pair, and afterwards the
\* row's last_updated equals the event's current revision marker.
C2_EditConverges ==
    quiet =>
      \A w \in writes : (w.op \in {"add", "update"} /\ w.stale) =>
        /\ w.op = "update"
        /\ Cardinality({v \in writes : v.op \in {"add", "update"}
                                        /\ v.cal = w.cal /\ v.oe = w.oe}) = 1
        /\ Lookup(w.cal, w.oe) # {}
        /\ \A r \in Lookup(w.cal, w.oe) :
             /\ r.event_id = w.id
             /\ r.last_updated = RevMarker(TheEvent(w.src, w.oe))

\* C3: after a completed sync run no ledger row that existed before the run
\* is left whose origin event is removed or cancelled at its source, every
\* blocker whose row the run removed is gone from its calendar, and a
\* further sync run with no remote change in between deletes nothing.
C3_DeletionConverges ==
    quiet =>
      /\ \A r \in ledger :
           SourceGone(r.origin_calendar_id, r.origin_event_id) =>
             \E w \in writes : /\ w.op = "add"
                               /\ w.cal = r.calendar_id
                               /\ w.oe = r.origin_event_id
      /\ \A w \in writes :
           w.op \in {"delete", "forget"} => Absent(InfoOf(w.cal), w.id)
      /\ runQuiet => \A w \in writes : w.op \notin {"delete", "forget"}

\* C4: an event whose summary carries the marker "O_o" never causes an
\* AddEvent or UpdateEvent and never is the origin event of a ledger row.
C4_NoSelfPropagation ==
    /\ \A w \in writes : w.op \in {"add", "update"} => ~HasMarker(w.summary)
    /\ \A r \in ledger : \A e \in remote[r.origin_calendar_id] :
         e.id = r.origin_event_id => ~HasMarker(e.summary)

\* a marker-carrying event of the current source was listed and passed over
C4_Witness ==
    /\ pc = "scan"
    /\ \E e \in remote[Head(srcTodo).ID] : e.id \in allEventsId /\ HasMarker(e.summary)

\* C5: when the cleanup of sync, or desync, has to delete a blocker that is
\* already absent from its calendar, the run does not abort: the ledger row
\* is removed and the run goes on.
C5_NotFoundNotFatal ==
    [][ /\ (DeleteStep /\ toDelete # {} /\ Absent(Head(destTodo), MinId(DeleteIds)))
            => (pc' = "del" /\ ledger' = DeleteByEventId(ledger, MinId(DeleteIds)))
        /\ (Desync /\ (\E r \in ledger : Absent(InfoOf(r.calendar_id), r.event_id))
                   /\ ~(\E r \in ledger : Broken(r))
                   /\ ~GetAllCalendarsFails)
            => (pc' = "done" /\ ledger' = {}) ]_vars

\* a sync run completed after DeleteEvent failed on a blocker already gone
C5_Witness ==
    /\ cmd = "sync"
    /\ pc = "done"
    /\ \E w \in writes : w.op = "delete" /\ ~w.ok /\ w.absent

\* C6: for every qualifying event listed on a source that had no ledger row
\* for a destination, a completed sync run issued exactly one AddEvent, the
\* blocker it returned is on the destination, one ledger row records source,
\* destination, origin event and that blocker, and the source got no write.
C6_FirstPropagation ==
    quiet =>
      /\ \A w \in writes : w.op = "add" =>
           /\ w.cal # w.src
           /\ Cardinality({v \in writes : v.op = "add" /\ v.cal = w.cal
                                           /\ v.oe = w.oe}) = 1
           /\ \E r \in Lookup(w.cal, w.oe) :
                r.origin_calendar_id = w.src /\ r.event_id = w.id
           /\ \E b \in remote[w.cal] :
                b.id = w.id /\ b.summary = BlockerSummary(w.summary)
      /\ \A src \in Tracked : \A e \in Mirrored(src) : \A dest \in Tracked :
           dest.ID # src.ID => Lookup(dest.ID, e.id) # {}

\* C7: the ledger never holds two rows for one (destination calendar,
\* origin event) pair.
C7_LedgerKeyUnique == \A r \in ledger : \A t \in ledger : SameKey(r, t) => r = t

\* an UpdateEvent was followed by the upsert of a row that already existed
C7_Witness ==
    /\ quiet
    /\ \E w \in writes : w.op = "update" /\ Lookup(w.cal, w.oe) # {}

\* C8: after a run was stopped between a remote write and its upsert, a later
\* sync run that completes with no remote change in between leaves exactly
\* one blocker per mirrored event on every destination, recorded in the
\* ledger row of the pair.
C8_CrashSafe ==
    (quiet /\ crashedMid) =>
      \A src \in Tracked : \A e \in Mirrored(src) : \A dest \in Tracked :
        dest.ID # src.ID =>
          /\ Cardinality(BlockersFor(dest, e.summary)) = 1
          /\ \E r \in Lookup(dest.ID, e.id) :
               \A b \in BlockersFor(dest, e.summary) : r.event_id = b.id

\* C9: when AddEvent or UpdateEvent returns an error the ledger and the
\* remote calendars are left as they were, the run ends in the error state,
\* and nothing more is written before another command starts.
C9_FailedWriteNotRecorded ==
    [][ /\ (DestStep /\ \E w \in writes' \ writes : ~w.ok)
            => (ledger' = ledger /\ remote' = remote /\ pc' = "failed")
        /\ (pc = "failed" /\ cmd = "sync" /\ runs' = runs)
            => (ledger' = ledger /\ writes' = writes /\ pc' = "failed") ]_vars

\* a sync run ended on a failed AddEvent or UpdateEvent
C9_Witness ==
    /\ cmd = "sync"
    /\ pc = "failed"
    /\ \E w \in writes : w.op \in {"add", "update"} /\ ~w.ok

\* C10: during the cleanup for a source and a destination, a row is marked
\* for deletion if and only if its origin event was not listed and the
\* direct fetch reports it missing or cancelled.
C10_OrphanCriterion ==
    pc = "del" =>
      \A r \in RowsOf(Head(destTodo).ID, Head(srcTodo).ID) :
        r.event_id \in DeleteIds <=>
          /\ r.origin_event_id \notin allEventsId
          /\ SourceGone(Head(srcTodo).ID, r.origin_event_id)

\* C11: after the desync command completes, the ledger contains no rows and
\* every blocker that was recorded in the ledger when the command started is
\* absent from its destination calendar.
C11_DesyncEndState ==
    (cmd = "desync" /\ pc = "done") =>
      /\ ledger = {}
      /\ \A w \in writes : Absent(InfoOf(w.cal), w.id)

\* C12: after the cleanup command completes, no tracked calendar holds an
\* event whose summary carries the marker, the ledger holds no row whose
\* destination is a tracked calendar, and no blocker is left on its calendar
\* with its ledger row gone.
C12_CleanupEndState ==
    (cmd = "cleanup" /\ pc = "done") =>
      /\ \A info \in Tracked : \A e \in remote[info.ID] :
           HasMarker(e.summary) => Absent(info, e.id)
      /\ \A r \in ledger : \A info \in Tracked : r.calendar_id # info.ID

\* C13: when a tracked calendar references a CalDAV server name that is
\* empty, "default" or absent from the configuration, or has an unsupported
\* provider type, a sync or desync run stops at once: no remote write, no
\* ledger change, nothing processed.
C13_InvalidConfigIsFatal ==
    [][ ((StartSync \/ Desync)
          /\ \E r \in RegistryRows :
               LET t == IF r.provider_type = "" THEN "google" ELSE r.provider_type
               IN \/ t \notin {"google", "caldav"}
                  \/ t = "caldav" /\ r.provider_config \in {"", "default"}
                  \/ t = "caldav" /\ r.provider_config \notin config)
        => (pc' = "refused" /\ remote' = remote /\ ledger' = ledger
            /\ writes' = {} /\ srcTodo' = <<>>) ]_vars

\* a sync or desync run was refused while the ledger still records a blocker
\* on the calendar whose server entry is gone
C13_Witness ==
    /\ cmd \in {"sync", "desync"}
    /\ pc = "refused"
    /\ \E r \in ledger : BadReference(InfoOf(r.calendar_id))

\* C14: GetAllCalendars constructs exactly one provider per distinct
\* (account, backend key) pair, however many calendars of the account use the
\* backend, and every tracked calendar resolves through its provider key to a
\* provider of its own account.
C14_ProviderSharing ==
    pc = "built" =>
      LET pairs == {<<r.account_name, ProviderKey(CalendarInfo(r))>> : r \in RegistryRows}
      IN /\ built = Cardinality(pairs)
         /\ Cardinality(providers) = Cardinality(pairs)
         /\ \A pr \in pairs : \E p \in providers : p.account = pr[1] /\ p.key = pr[2]
         /\ Len(calendars) = Len(registry)
         /\ \A i \in 1..Len(calendars) : Cardinality(Resolve(calendars[i])) = 1

\* three calendars were set up, two of them share the provider of an account
C14_Witness ==
    /\ pc = "built"
    /\ Len(registry) = 3
    /\ \E i, j \in 1..3 :
         /\ i # j
         /\ registry[i].account_name = registry[j].account_name
         /\ ProviderKey(CalendarInfo(registry[i])) = ProviderKey(CalendarInfo(registry[j]))
    /\ built = 2

\* C15: after any sequence of add and delete commands the registry never
\* holds two rows with the same (account name, calendar identifier); adding a
\* pair that is already registered fails and leaves the registry unchanged.
C15_RegistryUnique ==
    /\ [](\A i \in 1..Len(registry) : \A j \in 1..Len(registry) :
            (/\ registry[i].account_name = registry[j].account_name
             /\ registry[i].calendar_id = registry[j].calendar_id) => i = j)
    /\ [][ (AddCalendar /\ \E w \in writes' : \E c \in RegistryRows :
                             c.account_name = w.src /\ c.calendar_id = w.cal)
           => (registry' = registry /\ pc' = "failed") ]_vars

\* an add of a registered pair was refused
C15_Witness ==
    /\ cmd = "add"
    /\ pc = "failed"
    /\ \E w \in writes : /\ w.op = "register"
                         /\ ~w.ok
                         /\ \E c \in RegistryRows :
                              c.account_name = w.src /\ c.calendar_id = w.cal

\* C16: UpdateEvent with an identifier the backend does not (or no longer)
\* know is safe for both providers: whenever propagation is about to update
\* the blocker a ledger row records, the call can succeed (as an upsert or a
\* fallback to create); it is not bound to end in the error that aborts the run.
C16_UpdateUnknownIdSafe ==
    (pc = "dest" /\ destTodo # <<>>) =>
        LET row == RowFor(Head(destTodo).ID, Head(events).id)
        IN (~UpToDate(row, Head(srcTodo).ID) /\ UseUpdate(row))
              => UpdateCanSucceed(Head(destTodo), row.event_id)

\* C17: the Google provider's ListEvents returns every event of the calendar
\* whose interval intersects the requested range, however the backend splits
\* the events into pages.
C17_CompleteListing ==
    pc = "listed" =>
        {items[k] : k \in 1..Len(items)} = {i \in 1..MaxItems : onServer[i] = "in"}

\* C18: findAvailablePort tries the authorized ports in their listed order and
\* returns a listener on the first one that can be bound; it returns an error
\* if and only if none of the listed ports can be bound.
C18_FirstBindablePort ==
    LET bindable == {k \in 1..Len(authorizedPorts) : authorizedPorts[k] \in free}
    IN /\ pc = "bound" =>
            \E k \in bindable : /\ listener = authorizedPorts[k]
                                /\ \A j \in bindable : k <= j
       /\ pc = "noport" => bindable = {}
       /\ (pc \in {"bound", "noport"} /\ bindable = {}) => pc = "noport"

\* the first port is taken and the listener is on the second
C18_Witness ==
    /\ pc = "bound"
    /\ Len(authorizedPorts) = MaxPorts
    /\ authorizedPorts[1] \notin free
    /\ listener = authorizedPorts[2]
    /\ authorizedPorts[3] \in free
    /\ authorizedPorts[3] # authorizedPorts[2]

\* C19: propagation skips the pair (source C, event E, destination D), with
\* no remote call and no ledger write, if and only if a ledger row (D, E.id)
\* exists, the revision recorded with it equals E's current revision and its
\* origin calendar is C; in every other case one remote write is attempted.
C19_SkipPredicate ==
    [][ (pc = "dest" /\ destTodo # <<>> /\ DestStep) =>
          LET src == Head(srcTodo)
              e == Head(events)
              dest == Head(destTodo)
              converged ==
                  /\ \E r \in Lookup(dest.ID, e.id) : r.origin_calendar_id = src.ID
                  /\ Exists(src.ID, e.id)
                  /\ \E g \in rowRev : /\ g[1] = dest.ID
                                       /\ g[2] = e.id
                                       /\ g[3] = TheEvent(src.ID, e.id).updated
              skipped == /\ pc' = "dest"
                         /\ destTodo' = Tail(destTodo)
                         /\ remote' = remote
                         /\ writes' = writes
          IN /\ skipped <=> converged
             /\ ~skipped => (pc' \in {"upsert", "failed"} /\ writes' # writes) ]_vars

\* C20: for every (destination, event) pair the ledger is looked up before the
\* remote write; UpdateEvent is chosen exactly when the row found carries a
\* blocker identifier, AddEvent otherwise; and the identifier written to the
\* ledger afterwards is the one the remote write confirmed: the identifier
\* AddEvent returned, or the recorded one after a successful UpdateEvent.
C20_ReadBeforeWrite ==
    /\ [][ (pc = "dest" /\ destTodo # <<>> /\ DestStep /\ pc' = "upsert") =>
             LET src == Head(srcTodo)
                 e == Head(events)
                 dest == Head(destTodo)
                 found == Lookup(dest.ID, e.id)
                 carriesId == \E r \in found : r.event_id # NoId
             IN \E w \in writes' :
                  /\ w.cal = dest.ID /\ w.oe = e.id /\ w.src = src.ID /\ w.ok
                  /\ w.op = IF carriesId THEN "update" ELSE "add"
                  /\ w.op = "update" => \E r \in found : r.event_id = w.id
                  /\ w.op = "add" => w.id = NewEventId(dest)
                  /\ \E x \in remote'[dest.ID] :
                       x.id = w.id /\ x.summary = BlockerSummary(e.summary)
                  /\ cur'.row.event_id = w.id
                  /\ cur'.row.calendar_id = dest.ID
                  /\ cur'.row.origin_event_id = e.id
                  /\ ledger' = ledger ]_vars
    /\ [][ (UpsertStep /\ writes' = writes) =>
             /\ cur.row \in ledger'
             /\ \A r \in ledger' : SameKey(r, cur.row) => r = cur.row
             /\ remote' = remote ]_vars

\* a recorded blocker was updated and the row written after it keeps its
\* identifier
C20_Witness ==
    /\ cmd = "sync"
    /\ pc = "dest"
    /\ \E w \in writes : \E r \in ledger :
         /\ w.op = "update" /\ w.ok
         /\ r.calendar_id = w.cal /\ r.origin_event_id = w.oe
         /\ r.event_id = w.id
         /\ r.last_updated = UpdatedTime
         /\ \E x \in remote[w.cal] : x.id = w.id

\* C21: within one sync run no cleanup step (orphan scan or blocker deletion)
\* of any source calendar happens before the propagation of every tracked
\* source calendar has finished.
C21_PassOrdering ==
    (cmd = "sync" /\ pc \in {"scan", "del"}) => Tail(srcTodo) = <<>>

\* C22: the cleanup of sync deletes a ledger row only after the blocker is known
\* to be absent from the destination (the remote delete succeeded or the
\* backend reported not-found); when checking or deleting the blocker fails
\* for another reason the row is kept and the run stops, so that no blocker
\* is left on the destination without a ledger row.
C22_OrphanRemovalInStep ==
    [][ (pc = "del" /\ toDelete # {} /\ DeleteStep) =>
          LET dest == Head(destTodo)
              eventID == MinId(DeleteIds)
              live == \E x \in remote'[dest.ID] :
                         /\ x.id = eventID
                         /\ (dest.ProviderType = "google" => x.status # "cancelled")
          IN /\ (\E r \in ledger \ ledger' : r.calendar_id = dest.ID) => ~live
             /\ live => (pc' = "failed" /\ ledger' = ledger) ]_vars

\* C23: when the remote AddEvent or UpdateEvent succeeded and the ledger upsert
\* that follows fails, the run stops with an error; it does not continue and
\* finish as successful.
C23_LedgerWriteFailureSurfaced ==
    [][ (UpsertStep /\ \E w \in writes' \ writes : w.op = "record" /\ ~w.ok)
           => pc' = "failed" ]_vars

\* C24: every blocker passed to AddEvent or UpdateEvent has the summary "O_o "
\* followed by the source summary, the source description, the source start,
\* an end equal to the source end, or to start plus one hour when the source
\* has no end, and status "confirmed"; its end is never unset.
C24_BlockerContent ==
    pc = "passed" =>
        /\ blockerEvent.Summary = <<"O_o">> \o sourceEvent.Summary
        /\ blockerEvent.Description = sourceEvent.Description
        /\ blockerEvent.Start = sourceEvent.Start
        /\ sourceEvent.End # ZeroTime => blockerEvent.End = sourceEvent.End
        /\ sourceEvent.End = ZeroTime => blockerEvent.End = sourceEvent.Start + Hour
        /\ blockerEvent.End # ZeroTime
        /\ blockerEvent.Status = "confirmed"

\* a blocker was built from an event that has no end and is not confirmed
C24_Witness ==
    /\ pc = "passed"
    /\ sourceEvent.End = ZeroTime
    /\ sourceEvent.Start = MaxHour
    /\ sourceEvent.Status = "tentative"
    /\ blockerEvent.End = MaxHour + Hour

\* C25: an event whose kind is a working-location marker never causes an
\* AddEvent or UpdateEvent on another calendar and never gets a ledger row,
\* while its identifier still counts as seen for the orphan detection.
C25_PseudoEventsNotMirrored ==
    (pc \in {"skipped", "mirrored"} /\ item.EventType = "workingLocation") =>
        (pc = "skipped" /\ verdict.seen /\ verdict.id = item.Id)

\* C26: in every reachable state no ledger row has its destination calendar
\* equal to its origin calendar, and sync never issues AddEvent or UpdateEvent
\* against the calendar the source event was listed from.
C26_NoBlockerOnSource ==
    /\ \A r \in ledger : r.calendar_id # r.origin_calendar_id
    /\ \A w \in writes : w.op \in {"add", "update"} => w.cal # w.src
    /\ (pc \in {"dest", "scan"} /\ srcTodo # <<>>) =>
          \A i \in 1..Len(destTodo) : destTodo[i].ID # Head(srcTodo).ID

\* a run that completed with both calendars having been source and
\* destination of a propagation
C26_Witness ==
    /\ cmd = "sync"
    /\ pc = "done"
    /\ \E w \in writes : w.op = "add" /\ w.ok /\ w.src = "A" /\ w.cal = "B"
    /\ \E w \in writes : w.op \in {"add", "update"} /\ w.ok /\ w.src = "B" /\ w.cal = "A"
    /\ \E r \in ledger : r.origin_calendar_id = "A"
    /\ \E r \in ledger : r.origin_calendar_id = "B"

\* C27: with either provider, after a sync run that completed no ledger row
\* exists whose origin event is cancelled at its source, also when the
\* cancelled event is still returned by the listing of the window; and the
\* propagation never creates or updates a blocker for a cancelled event.
C27_CancelledHoldNoBlockers ==
    /\ quiet =>
         \A r \in ledger : \A e \in remote[r.origin_calendar_id] :
            e.id = r.origin_event_id => e.status # "cancelled"
    /\ (cmd = "sync" /\ (pc \in Running \/ quiet)) =>
         \A w \in writes : w.op \in {"add", "update"} =>
            \A e \in remote[w.src] : e.id = w.oe => e.status # "cancelled"

\* C28: the choice between skip, UpdateEvent and AddEvent for a pair
\* (destination, event) depends only on the ledger row of the pair and on
\* the event: a run that starts with the same ledger and the same source
\* events, whatever the destination calendar holds, makes the same choice.
C28_LedgerAloneDecides ==
    (pc = "dest" /\ destTodo # <<>>) =>
        LET row == RowFor(Head(destTodo).ID, Head(events).id)
            any == UNION {remote[c] : c \in CalIds}
        IN \A alt \in SUBSET any : \A t \in 1..MaxClock :
             Choice(<<"t", t>>, alt, row, Head(srcTodo).ID)
               = Choice(UpdatedTime, remote[Head(destTodo).ID], row, Head(srcTodo).ID)

\* C30: when the account has no stored token, or the stored token is expired
\* or revoked, getClient runs the re-authentication flow at most once, stores
\* the new token under the account in place of any old one and returns a
\* client built from it; after it returns the table holds exactly one token
\* for the account.
C30_CredentialHandling ==
    (pc = "returned" /\ loaded.state \in {"none", "expired", "revoked"}) =>
        LET rows == {r \in tokenStore : r.account_name = caller}
        IN /\ flows <= 1
           /\ client.id # <<"old", 0>>
           /\ Cardinality(rows) = 1
           /\ \A r \in rows : r.token = client

\* C29: for a sync run in which no remote call fails, the final ledger and the
\* final set of blockers on every calendar are the same for every iteration
\* order of accounts, source calendars and destination calendars, up to the
\* identifiers of the blockers.
C29_OrderIndependence ==
    (cmd = "sync" /\ pc = "done" /\ firstOutcome.kept /\ \A w \in writes : w.ok)
        => Outcome = firstOutcome

\* C31: AddEvent followed by GetEvent with the returned identifier yields an
\* event with that identifier, the same summary, description, start and end
\* and status "confirmed"; after DeleteEvent with that identifier GetEvent
\* fails; all three calls address <calendar-path>/<event-id>.ics.
C31_CalDAVRoundTrip ==
    /\ (pc = "got" /\ ~lastGet.err) =>
          lastGet.event = [ID |-> lastAdd.id,
                           Summary |-> newEvent.Summary,
                           Description |-> newEvent.Description,
                           Start |-> newEvent.Start,
                           End |-> newEvent.End,
                           Status |-> "confirmed"]
    /\ pc = "gone" => lastGet.err
    /\ pc \in {"got", "deleted", "gone"} =>
          /\ lastGet.path = davCalendar \o <<"/", lastAdd.id, ".ics">>
          /\ lastAdd.path = lastGet.path
          /\ lastDelete.called => lastDelete.path = lastGet.path

\* C32: any two successful AddEvent calls on the same CalDAV calendar return
\* different identifiers and leave two separate events (the second never
\* overwrites the first), so no two ledger rows with the same destination
\* calendar share an event_id.
C32_DistinctBlockerIds ==
    /\ [](\A r1 \in ledger : \A r2 \in ledger :
            (r1.calendar_id = r2.calendar_id /\ r1.event_id = r2.event_id)
                => r1 = r2)
    /\ [][\A w \in writes' \ writes :
            (w.op = "add" /\ w.ok) =>
                /\ w.id \notin {e.id : e \in remote[w.cal]}
                /\ Cardinality(remote'[w.cal]) = Cardinality(remote[w.cal]) + 1]_vars

\* C33: when the cleanup of sync removes the orphan row for (destination D,
\* origin event E), every other ledger row is left unchanged.
C33_OrphanRemovalOneRow ==
    [][(pc = "del" /\ toDelete # {} /\ DeleteStep) =>
          /\ ledger' \subseteq ledger
          /\ Cardinality(ledger \ ledger') <= 1
          /\ \A r \in ledger \ ledger' :
                /\ r.calendar_id = Head(destTodo).ID
                /\ r.origin_calendar_id = Head(srcTodo).ID
                /\ r.event_id \in DeleteIds]_vars

\* C34: once a ledger row for (D, E.id) records origin calendar C, later sync
\* runs with no remote change never rewrite that row with a different origin
\* calendar, also when an event with the same identifier is listed on more
\* than one tracked calendar.
C34_StableOrigin ==
    [][(cmd = "sync" /\ runs >= 2) =>
          \A r \in ledger : \A n \in ledger' :
              SameKey(r, n) => n.origin_calendar_id = r.origin_calendar_id]_vars

\* C35: from a database at any recorded version 0..3, or without a version
\* table, dbInit applies the missing steps in order and ends with recorded
\* version 3; the recorded version never decreases; dbInit on a version 3
\* database changes nothing.
C35_MigrationMonotone ==
    /\ [](dbRun.clean => pc # "failed")
    /\ [](pc = "done" =>
            /\ dbVersionRow = LastVersion
            /\ tables = TablesAt(LastVersion)
            /\ columns = ColumnsAt(LastVersion))
    /\ [][/\ dbVersionRow' \in {dbVersionRow, dbVersionRow + 1}
          /\ (dbVersionRow = LastVersion /\ Consistent) =>
                UNCHANGED <<versionTable, dbVersionRow, tables, columns>>]_vars

\* an uninterrupted run on a new file went through every step
C35_Witness ==
    /\ pc = "done"
    /\ dbRun = [from |-> NoVersion, clean |-> TRUE, killed |-> FALSE]
    /\ dbVersionRow = LastVersion
    /\ starts = 1

\* C36: if dbInit is interrupted at any point, in particular between a schema
\* change and the update of the recorded version, a later run of dbInit still
\* ends with recorded version 3 instead of failing.
C36_MigrationRestartable ==
    (starts >= 2 /\ pc \in {"done", "failed"}) =>
        (pc = "done" /\ dbVersionRow = LastVersion)

\* C37: after the delete command completes for calendar X, the registry holds
\* no row for X and the ledger holds no row that references X, as destination
\* calendar or as origin calendar.
C37_DeleteLeavesNoRows ==
    (cmd = "delete" /\ pc = "done") =>
        \A x \in CalIds :
            (\A c \in RegistryRows : c.calendar_id # x) =>
                \A r \in ledger : r.calendar_id # x /\ r.origin_calendar_id # x

\* C38: every UpdateEvent and DeleteEvent issued by a sync run targets a
\* (calendar, event ID) pair that the ledger records as a blocker at that
\* moment, and a sync run never changes a row of the calendars registry.
C38_SyncOwnBlockersOnly ==
    [][/\ \A w \in writes' \ writes :
            w.op = "update" =>
                \E r \in ledger : r.calendar_id = w.cal /\ r.event_id = w.id
       /\ (/\ DeleteStep
           /\ toDelete # {}
           /\ (remote' # remote \/ \E w \in writes' \ writes : w.op = "delete"))
            => \E r \in ledger : /\ r.calendar_id = Head(destTodo).ID
                                 /\ r.event_id = NextEntry[1]
       /\ cmd' = "sync" => registry' = registry]_vars

\* C39: getTokenFromWeb exchanges only a non-empty authorization code taken
\* from a callback request that carried a code parameter; a request without
\* a code does not end the wait; no callback handler stays blocked on the
\* channel once the caller has received a code.
C39_CallbackHandshake ==
    /\ pc \in {"exchange", "returned", "failed"} =>
          /\ authCode # ""
          /\ \E i \in 1..MaxRequests :
                handlers[i] = [code |-> authCode, at |-> "replied"]
    /\ (pc = "returned" /\ ~serving) =>
          \A i \in 1..MaxRequests : handlers[i].at # "send"

====
